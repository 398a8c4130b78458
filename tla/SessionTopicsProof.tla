---- MODULE SessionTopicsProof ----
(* What client, gateway and radio keep in every state: the types of all of    *)
(* it, what a delivery of the broker becomes on its way to the application,   *)
(* which numbers the gateway gives to topics, and how far a returning client  *)
(* was told of them. Most of it is what one step makes of each part of the    *)
(* state, from which the invariants follow.                                   *)
EXTENDS Session, MessageRingProof
LOCAL INSTANCE SequencesExt

USE RingSizeAssumption, MaxIdAssumption, NretryAssumption, BudgetAssumption, MaxTopicIdAssumption

----------------------------------------------------------------------------
(* The topics of a connection. A search finds a topic, or there is none.      *)
ATopic(nums) ==
  [name : TopicNames, id : TopicIds, mid : nums, complete : BOOLEAN,
   subscribed : BOOLEAN, qos : 0 .. 2]

LEMMA ByNameFound ==
  ASSUME NEW topics, Len(topics) \in Nat, NEW name
  PROVE  LET i == ByName(topics, name) IN
           /\ i \in 0 .. Len(topics)
           /\ i # 0 => topics[i].name = name
           /\ i = 0 => \A j \in 1 .. Len(topics) : topics[j].name # name
<1> DEFINE I == {i \in 1 .. Len(topics) : topics[i].name = name}
<1>1. ByName(topics, name) = IF I # {} THEN CHOOSE x \in I : \A y \in I : x <= y ELSE 0
  BY DEF ByName, SelectInSeq, Min
<1>2. I \in SUBSET Nat
  OBVIOUS
<1>3. I # {} => (CHOOSE x \in I : \A y \in I : x <= y) \in I
  <2> HIDE DEF I
  <2> QED
    BY <1>2, LeastNatural
<1>4. CASE I = {}
  BY <1>1, <1>4
<1>5. CASE I # {}
  <2> DEFINE i == CHOOSE x \in I : \A y \in I : x <= y
  <2>1. i \in I
    BY <1>3, <1>5
  <2>2. ByName(topics, name) = i
    BY <1>1, <1>5
  <2> HIDE DEF i
  <2>3. i \in 1 .. Len(topics) /\ topics[i].name = name
    BY <2>1
  <2> HIDE DEF I
  <2> QED
    BY <2>2, <2>3
<1> QED
  BY <1>4, <1>5

LEMMA ByIdFound ==
  ASSUME NEW topics, Len(topics) \in Nat, NEW id
  PROVE  LET i == ById(topics, id) IN
           /\ i \in 0 .. Len(topics)
           /\ i # 0 => topics[i].id = id
           /\ i = 0 => \A j \in 1 .. Len(topics) : topics[j].id # id
<1> DEFINE I == {i \in 1 .. Len(topics) : topics[i].id = id}
<1>1. ById(topics, id) = IF I # {} THEN CHOOSE x \in I : \A y \in I : x <= y ELSE 0
  BY DEF ById, SelectInSeq, Min
<1>2. I \in SUBSET Nat
  OBVIOUS
<1>3. I # {} => (CHOOSE x \in I : \A y \in I : x <= y) \in I
  <2> HIDE DEF I
  <2> QED
    BY <1>2, LeastNatural
<1>4. CASE I = {}
  BY <1>1, <1>4
<1>5. CASE I # {}
  <2> DEFINE i == CHOOSE x \in I : \A y \in I : x <= y
  <2>1. i \in I
    BY <1>3, <1>5
  <2>2. ById(topics, id) = i
    BY <1>1, <1>5
  <2> HIDE DEF i
  <2>3. i \in 1 .. Len(topics) /\ topics[i].id = id
    BY <2>1
  <2> HIDE DEF I
  <2> QED
    BY <2>2, <2>3
<1> QED
  BY <1>4, <1>5

LEMMA IncompleteFound ==
  ASSUME NEW topics, Len(topics) \in Nat, NEW mid
  PROVE  LET i == Incomplete(topics, mid) IN
           /\ i \in 0 .. Len(topics)
           /\ i # 0 => topics[i].mid = mid /\ ~topics[i].complete
<1> DEFINE I == {i \in 1 .. Len(topics) : topics[i].mid = mid /\ ~topics[i].complete}
<1>1. Incomplete(topics, mid) = IF I # {} THEN CHOOSE x \in I : \A y \in I : x <= y ELSE 0
  BY DEF Incomplete, SelectInSeq, Min
<1>2. I \in SUBSET Nat
  OBVIOUS
<1>3. I # {} => (CHOOSE x \in I : \A y \in I : x <= y) \in I
  <2> HIDE DEF I
  <2> QED
    BY <1>2, LeastNatural
<1> QED
  BY <1>1, <1>3

LEMMA FirstNamedFound ==
  ASSUME NEW topics, Len(topics) \in Nat, NEW from \in Nat
  PROVE  LET i == FirstNamed(topics, from) IN
           /\ i \in 0 .. Len(topics)
           /\ i # 0 => ~IsWildcard(topics[i])
<1> DEFINE I == {i \in from .. Len(topics) : ~IsWildcard(topics[i])}
<1>1. FirstNamed(topics, from) =
        IF from = 0 \/ I = {} THEN 0 ELSE CHOOSE x \in I : \A y \in I : x <= y
  BY DEF FirstNamed, TopicFrom, SelectInSubSeq, Min
<1>2. I \in SUBSET Nat
  OBVIOUS
<1>3. I # {} => (CHOOSE x \in I : \A y \in I : x <= y) \in I
  <2> HIDE DEF I
  <2> QED
    BY <1>2, LeastNatural
<1> QED
  BY <1>1, <1>3

LEMMA FollowingFound ==
  ASSUME NEW topics, Len(topics) \in Nat, NEW from \in 0 .. Len(topics)
  PROVE  LET i == Following(topics, from) IN
           /\ i \in 0 .. Len(topics)
           /\ i # 0 => ~IsWildcard(topics[i])
<1>1. NextTopic(topics, from) \in Nat
  BY DEF NextTopic
<1> QED
  BY <1>1, FirstNamedFound DEF Following

(* The topic by which a message of that name is delivered.                    *)
FirstMatch(topics, name) ==
  TopicFrom(topics, FirstTopic(topics), LAMBDA t : t.subscribed /\ MatchesName(t, name))

LEMMA MatchFound ==
  ASSUME NEW topics, Len(topics) \in Nat, NEW name
  PROVE  LET i == FirstMatch(topics, name) IN
           /\ i \in 0 .. Len(topics)
           /\ i # 0 => MatchesName(topics[i], name)
<1> DEFINE I == {i \in 1 .. Len(topics) : topics[i].subscribed /\ MatchesName(topics[i], name)}
<1>1. FirstMatch(topics, name) =
        IF topics = <<>> \/ I = {} THEN 0 ELSE CHOOSE x \in I : \A y \in I : x <= y
  <2>1. CASE topics = <<>>
    BY <2>1 DEF FirstMatch, FirstTopic, TopicFrom
  <2>2. CASE topics # <<>>
    BY <2>2 DEF FirstMatch, FirstTopic, TopicFrom, SelectInSubSeq, Min
  <2> QED
    BY <2>1, <2>2
<1>2. I \in SUBSET Nat
  OBVIOUS
<1>3. I # {} => (CHOOSE x \in I : \A y \in I : x <= y) \in I
  <2> HIDE DEF I
  <2> QED
    BY <1>2, LeastNatural
<1> QED
  BY <1>1, <1>3

(* The id of the next topic is one: the loop of add_topic() counts in 16 bits. *)
Counts(topics, g, n) ==
  g = [i \in 0 .. n |-> IF i = 0 THEN 0
                        ELSE IF topics[i].id >= g[i - 1] THEN (topics[i].id + 1) % (MaxTopicId + 1)
                        ELSE g[i - 1]]

LEMMA CountExists ==
  ASSUME NEW topics, NEW n \in Nat
  PROVE  \E g : Counts(topics, g, n)
<1> DEFINE S == {k \in Nat : ~ \E g : Counts(topics, g, k)}
<1>1. ASSUME NEW k \in S, \A j \in S : k <= j
      PROVE  FALSE
  <2>1. k # 0
    <3> DEFINE g == [i \in 0 .. 0 |-> 0]
    <3>1. Counts(topics, g, 0)
      BY DEF Counts
    <3> HIDE DEF g
    <3> QED
      BY <3>1, <1>1
  <2>2. k - 1 \in Nat /\ k - 1 \notin S
    BY <1>1, <2>1
  <2>3. PICK g : Counts(topics, g, k - 1)
    BY <2>2
  <2> DEFINE v == IF topics[k].id >= g[k - 1] THEN (topics[k].id + 1) % (MaxTopicId + 1) ELSE g[k - 1]
             h == [i \in 0 .. k |-> IF i = k THEN v ELSE g[i]]
  <2>4. \A i \in 0 .. k - 1 : g[i] = IF i = 0 THEN 0
                        ELSE IF topics[i].id >= g[i - 1] THEN (topics[i].id + 1) % (MaxTopicId + 1)
                        ELSE g[i - 1]
    BY <2>3 DEF Counts
  <2> HIDE DEF v
  <2>5. \A i \in 0 .. k : h[i] = IF i = k THEN v ELSE g[i]
    OBVIOUS
  <2>6. \A i \in 1 .. k : h[i - 1] = g[i - 1]
    BY <2>2, <2>5
  <2>7. \A i \in 0 .. k : h[i] = IF i = 0 THEN 0
                        ELSE IF topics[i].id >= h[i - 1] THEN (topics[i].id + 1) % (MaxTopicId + 1)
                        ELSE h[i - 1]
    <3> SUFFICES ASSUME NEW i \in 0 .. k
                 PROVE  h[i] = IF i = 0 THEN 0
                        ELSE IF topics[i].id >= h[i - 1] THEN (topics[i].id + 1) % (MaxTopicId + 1)
                        ELSE h[i - 1]
      OBVIOUS
    <3>1. CASE i = k
      BY <2>1, <2>2, <2>5, <2>6, <3>1 DEF v
    <3>2. CASE i \in 0 .. k - 1
      <4>1. h[i] = g[i] /\ (i # 0 => h[i - 1] = g[i - 1])
        BY <2>2, <2>5, <2>6, <3>2
      <4> HIDE DEF h
      <4> QED
        BY <2>4, <3>2, <4>1
    <3> QED
      BY <2>2, <3>1, <3>2
  <2>8. h = [i \in 0 .. k |-> h[i]]
    OBVIOUS
  <2> HIDE DEF h
  <2>9. Counts(topics, h, k)
    BY <2>7, <2>8 DEF Counts
  <2> QED
    BY <1>1, <2>9
<1>2. S = {}
  <2> HIDE DEF S
  <2>1. S \in SUBSET Nat
    BY DEF S
  <2> QED
    BY <1>1, <2>1, LeastNatural
<1> QED
  BY <1>2

LEMMA NextTopicIdType ==
  ASSUME NEW topics, Len(topics) \in Nat, \A i \in 1 .. Len(topics) : topics[i].id \in TopicIds
  PROVE  NextTopicId(topics) \in TopicIds
<1>1. CASE topics = <<>>
  BY <1>1 DEF NextTopicId, TopicIds
<1>2. CASE topics # <<>>
  <2> DEFINE n == Len(topics)
             after == CHOOSE g : Counts(topics, g, n)
  <2>1. NextTopicId(topics) = after[n]
    BY <1>2 DEF NextTopicId, Counts
  <2>2. Counts(topics, after, n)
    BY CountExists
  <2> HIDE DEF after
  <2>3. \A i \in 0 .. n : after[i] = IF i = 0 THEN 0
                        ELSE IF topics[i].id >= after[i - 1] THEN (topics[i].id + 1) % (MaxTopicId + 1)
                        ELSE after[i - 1]
    BY <2>2 DEF Counts
  <2> DEFINE S == {k \in 0 .. n : after[k] \notin TopicIds}
  <2>4. ASSUME NEW k \in S, \A j \in S : k <= j
        PROVE  FALSE
    <3>1. k # 0
      BY <2>3, <2>4 DEF TopicIds
    <3>2. k \in 1 .. n /\ k - 1 \in 0 .. n /\ k - 1 \notin S
      BY <2>4, <3>1
    <3>3. after[k - 1] \in TopicIds /\ topics[k].id \in TopicIds /\ after[k] \notin TopicIds
      BY <2>4, <3>2
    <3>4. after[k] \in {(topics[k].id + 1) % (MaxTopicId + 1), after[k - 1]}
      BY <2>3, <3>2
    <3>5. (topics[k].id + 1) % (MaxTopicId + 1) \in TopicIds
      <4> DEFINE x == topics[k].id + 1
      <4>1. x \in Nat
        BY <3>3 DEF TopicIds
      <4> HIDE DEF x
      <4>2. x % (MaxTopicId + 1) \in 0 .. MaxTopicId
        BY <4>1
      <4> QED
        BY <4>2 DEF TopicIds, x
    <3> QED
      BY <3>3, <3>4, <3>5
  <2>5. S = {}
    <3>1. S \in SUBSET Nat
      OBVIOUS
    <3> HIDE DEF S
    <3> QED
      BY <2>4, <3>1, LeastNatural
  <2> QED
    BY <2>1, <2>5
<1> QED
  BY <1>1, <1>2

(* The gateway's topics keep their names and ids, and a new one has the next. *)
Grown(new, old) ==
  /\ Len(new) \in {Len(old), Len(old) + 1}
  /\ \A j \in 1 .. Len(old) : new[j].name = old[j].name /\ new[j].id = old[j].id
  /\ \A j \in Len(old) + 1 .. Len(new) :
       new[j].id = IF new[j].name \in Filters THEN 0 ELSE NextTopicId(old)

LEMMA CollectionsAre == \A nums : Collections(nums) = Seq(ATopic(nums))
BY DEF Collections, ATopic

LEMMA CollectionLength ==
  ASSUME NEW topics, NEW nums, topics \in Collections(nums)
  PROVE  /\ Len(topics) \in Nat /\ DOMAIN topics = 1 .. Len(topics)
         /\ \A i \in 1 .. Len(topics) : topics[i] \in ATopic(nums)
BY CollectionsAre

LEMMA TopicSet ==
  ASSUME NEW topics, NEW nums, topics \in Collections(nums), NEW i \in 1 .. Len(topics),
         NEW t \in ATopic(nums)
  PROVE  LET n == [topics EXCEPT ![i] = t] IN
           /\ n \in Collections(nums) /\ Len(n) = Len(topics) /\ n[i] = t
           /\ \A j \in 1 .. Len(topics) : j # i => n[j] = topics[j]
BY CollectionsAre

LEMMA CompletedType ==
  ASSUME NEW nums, NEW t \in ATopic(nums), NEW id \in TopicIds
  PROVE  LET n == Completed(t, id) IN
         /\ n \in ATopic(nums) /\ n.name = t.name /\ n.mid = t.mid /\ n.complete
         /\ n.id = IF t.name \in Filters THEN t.id ELSE id
BY DEF Completed, ATopic, IsWildcard

LEMMA NewTopicType ==
  ASSUME NEW nums, NEW name \in TopicNames, NEW id \in TopicIds, NEW mid \in nums
  PROVE  LET t == NewTopic(name, id, mid) IN
         /\ t \in ATopic(nums) /\ Completed(t, id) \in ATopic(nums)
         /\ t.name = name /\ Completed(t, id).name = name
         /\ t.mid = mid /\ Completed(t, id).mid = mid
         /\ ~t.complete /\ Completed(t, id).complete
         /\ t.id = IF name \in Filters THEN 0 ELSE id
         /\ Completed(t, id).id = t.id
<1> DEFINE t == NewTopic(name, id, mid)
<1>1. /\ t \in ATopic(nums) /\ t.name = name /\ t.mid = mid /\ ~t.complete
      /\ t.id = IF name \in Filters THEN 0 ELSE id
  BY DEF NewTopic, ATopic, TopicIds
<1> HIDE DEF t
<1>2. LET n == Completed(t, id) IN
         /\ n \in ATopic(nums) /\ n.name = t.name /\ n.mid = t.mid /\ n.complete
         /\ n.id = IF t.name \in Filters THEN t.id ELSE id
  BY <1>1, CompletedType
<1> QED
  BY <1>1, <1>2 DEF t

LEMMA Appended ==
  ASSUME NEW topics, NEW nums, topics \in Collections(nums), NEW t \in ATopic(nums)
  PROVE  LET n == Append(topics, t) IN
         /\ n \in Collections(nums) /\ Len(n) = Len(topics) + 1
         /\ n[Len(topics) + 1] = t
         /\ \A j \in 1 .. Len(topics) : n[j] = topics[j]
<1> DEFINE S == ATopic(nums)
<1>1. topics \in Seq(S) /\ t \in S /\ Collections(nums) = Seq(S)
  BY CollectionsAre
<1> HIDE DEF S
<1> QED
  BY <1>1

LEMMA AddTopicGrows ==
  ASSUME NEW topics, NEW nums, topics \in Collections(nums), NEW name \in TopicNames,
         NEW mid \in nums
  PROVE  LET n == AddTopic(topics, name, mid)
             i == ByName(n, name)
         IN /\ n \in Collections(nums) /\ Grown(n, topics)
            /\ i \in 1 .. Len(n) /\ n[i].name = name
            /\ ByName(topics, name) = 0 => n[Len(n)].name = name /\ Len(n) \in 1 .. Len(n)
<1>1. Len(topics) \in Nat /\ \A i \in 1 .. Len(topics) : topics[i] \in ATopic(nums)
  BY CollectionLength
<1>2. CASE ByName(topics, name) # 0
  <2>1. Grown(topics, topics)
    BY <1>1 DEF Grown
  <2> QED
    BY <1>1, <1>2, <2>1, ByNameFound DEF AddTopic
<1>3. CASE ByName(topics, name) = 0
  <2> DEFINE id == NextTopicId(topics)
             t == Completed(NewTopic(name, id, mid), id)
             n == Append(topics, t)
  <2>1. id \in TopicIds
    BY <1>1, NextTopicIdType DEF ATopic
  <2>2. t \in ATopic(nums) /\ t.name = name /\ t.id = IF name \in Filters THEN 0 ELSE id
    BY <2>1, NewTopicType
  <2> HIDE DEF t
  <2>3. /\ n \in Collections(nums) /\ Len(n) = Len(topics) + 1
        /\ n[Len(topics) + 1] = t
        /\ \A j \in 1 .. Len(topics) : n[j] = topics[j]
    BY <2>2, Appended
  <2>4. AddTopic(topics, name, mid) = n
    BY <1>3 DEF AddTopic, t
  <2> HIDE DEF n
  <2>5. Grown(n, topics)
    BY <1>1, <2>2, <2>3 DEF Grown
  <2>6. ByName(n, name) # 0 /\ ByName(n, name) \in 0 .. Len(n) /\ n[ByName(n, name)].name = name
    BY <1>1, <2>2, <2>3, ByNameFound
  <2> QED
    BY <1>1, <2>2, <2>3, <2>4, <2>5, <2>6
<1> QED
  BY <1>2, <1>3

LEMMA TopicChanged ==
  ASSUME NEW topics, NEW nums, topics \in Collections(nums), NEW i \in 1 .. Len(topics),
         NEW qos \in 0 .. 2, NEW old, Grown(topics, old), Len(old) \in Nat
  PROVE  /\ [topics EXCEPT ![i].qos = qos] \in Collections(nums)
         /\ Grown([topics EXCEPT ![i].qos = qos], old)
         /\ [topics EXCEPT ![i].qos = qos, ![i].subscribed = TRUE] \in Collections(nums)
         /\ Grown([topics EXCEPT ![i].qos = qos, ![i].subscribed = TRUE], old)
<1> DEFINE t == [topics[i] EXCEPT !.qos = qos]
           u == [t EXCEPT !.subscribed = TRUE]
<1>1. Len(topics) \in Nat /\ topics[i] \in ATopic(nums)
  BY CollectionLength
<1>2. /\ t \in ATopic(nums) /\ t.name = topics[i].name /\ t.id = topics[i].id
      /\ u \in ATopic(nums) /\ u.name = topics[i].name /\ u.id = topics[i].id
  BY <1>1 DEF ATopic
<1>3. /\ [topics EXCEPT ![i].qos = qos] = [topics EXCEPT ![i] = t]
      /\ [topics EXCEPT ![i].qos = qos, ![i].subscribed = TRUE] = [topics EXCEPT ![i] = u]
  BY CollectionsAre
<1>4. ASSUME NEW x \in ATopic(nums), x.name = topics[i].name, x.id = topics[i].id
      PROVE  [topics EXCEPT ![i] = x] \in Collections(nums) /\ Grown([topics EXCEPT ![i] = x], old)
  <2> DEFINE n == [topics EXCEPT ![i] = x]
  <2>1. /\ n \in Collections(nums) /\ Len(n) = Len(topics) /\ n[i] = x
        /\ \A j \in 1 .. Len(topics) : j # i => n[j] = topics[j]
    BY <1>4, TopicSet
  <2> HIDE DEF n
  <2>2. \A j \in 1 .. Len(topics) : n[j].name = topics[j].name /\ n[j].id = topics[j].id
    BY <1>4, <2>1
  <2>3. Grown(n, old)
    BY <1>1, <2>1, <2>2 DEF Grown
  <2> QED
    BY <2>1, <2>3 DEF n
<1> HIDE DEF t, u
<1> QED
  BY <1>2, <1>3, <1>4

----------------------------------------------------------------------------
(* What becomes of the messages of a ring in one step. Most grow older: they  *)
(* are written, their attempts are counted, or they are done.                 *)
Aged(n, m) ==
  /\ IsMessage(n)
  /\ \A f \in Fields \ {"active", "sent", "attempts"} : n[f] = m[f]
  /\ n.active \in {m.active, FALSE} /\ n.sent \in {m.sent, TRUE}
  /\ n.sent = m.sent \/ HasContent(m)
  /\ \/ n.attempts \in {m.attempts, 0}
     \/ m.active /\ n.attempts = m.attempts + 1 /\ (n.active => ~HasFailed(n))
AgedRing(new, old) ==
  /\ IsRing(new) /\ new.last = old.last
  /\ \A i \in Places : Aged(new.place[i], old.place[i])

(* A message add_message() and set_message() made, and one that waits for an  *)
(* answer of mosquitto to packet x.                                           *)
Fresh(id, activity, type, tid, name, data, qos, oneshot) ==
  [active |-> TRUE, type |-> type, data |-> data, tid |-> tid, name |-> name,
   id |-> id, ext |-> FALSE, mos |-> 0, qos |-> qos, activity |-> activity,
   sent |-> FALSE, attempts |-> 0, oneshot |-> oneshot]
Awaiting(x, activity, tid, mid, oneshot) ==
  [active |-> TRUE, type |-> "none", data |-> 0, tid |-> tid, name |-> "",
   id |-> x.id, ext |-> TRUE, mos |-> mid, qos |-> x.qos, activity |-> activity,
   sent |-> FALSE, attempts |-> 0, oneshot |-> oneshot]

LEMMA AgedSelf == \A m : IsMessage(m) => Aged(m, m)
BY DEF Aged

LEMMA AgedSame ==
  ASSUME NEW r, IsRing(r)
  PROVE  AgedRing(r, r) /\ AgedRing(Looked(r), r)
BY LookedRing, AgedSelf DEF AgedRing, IsRing

LEMMA AgedSet ==
  ASSUME NEW r, IsRing(r), NEW i \in Places, NEW m, Aged(m, r.place[i])
  PROVE  AgedRing([r EXCEPT !.place[i] = m], r)
<1> DEFINE n == [r EXCEPT !.place[i] = m]
<1>1. /\ IsRing(n) /\ n.last = r.last /\ n.place[i] = m
      /\ \A j \in Places \ {i} : n.place[j] = r.place[j]
  BY PlaceSet DEF Aged
<1> HIDE DEF n
<1>2. AgedRing(n, r)
  BY <1>1, AgedSelf DEF AgedRing, IsRing
<1> QED
  BY <1>2 DEF n

LEMMA AgedInactive ==
  ASSUME NEW m, IsMessage(m)
  PROVE  Aged([m EXCEPT !.active = FALSE], m)
BY InactiveFields DEF Aged, Fields

LEMMA AgedDeactivate ==
  ASSUME NEW r, IsRing(r), NEW i \in Places
  PROVE  AgedRing(Deactivate(r, i), r)
<1> DEFINE m == [r.place[i] EXCEPT !.active = FALSE]
<1>1. Deactivate(r, i) = [r EXCEPT !.place[i] = m]
  BY DEF Deactivate, IsRing
<1>2. Aged(m, r.place[i])
  BY AgedInactive DEF IsRing
<1> HIDE DEF m
<1> QED
  BY <1>1, <1>2, AgedSet

LEMMA AgedLooked ==
  ASSUME NEW r, IsRing(r), NEW i \in Places
  PROVE  AgedRing(Deactivate(Looked(r), i), r)
<1>1. IsRing(Looked(r)) /\ Looked(r).place = r.place /\ Looked(r).last = r.last
  BY LookedRing
<1>2. AgedRing(Deactivate(Looked(r), i), Looked(r))
  BY <1>1, AgedDeactivate
<1> QED
  BY <1>1, <1>2 DEF AgedRing

(* The turn of the current message.                                           *)
LEMMA AgedCurrent ==
  ASSUME NEW r, IsRing(r), Active(r) # {}
  PROVE  LET i == Current(r)
             m == r.place[i]
         IN /\ i \in Places /\ IsMessage(m) /\ m.active
            /\ AgedRing([Looked(r) EXCEPT !.place[i] = m], r)
            /\ HasContent(m) => AgedRing([Looked(r) EXCEPT !.place[i] = Sending(m)], r)
            /\ ~HasFailed(Expired(m)) => AgedRing([Looked(r) EXCEPT !.place[i] = Expired(m)], r)
            /\ AgedRing([Looked(r) EXCEPT !.place[i] = [Expired(m) EXCEPT !.active = FALSE]], r)
<1> DEFINE i == Current(r)
           m == r.place[i]
<1>1. i \in Places /\ i \in Active(r) /\ IsMessage(m)
  BY CurrentActive DEF IsRing
<1>2. m.active
  BY <1>1 DEF Active
<1>3. IsRing(Looked(r)) /\ Looked(r).place = r.place /\ Looked(r).last = r.last
  BY LookedRing
<1>4. ASSUME NEW n, Aged(n, m)
      PROVE  AgedRing([Looked(r) EXCEPT !.place[i] = n], r)
  <2>1. AgedRing([Looked(r) EXCEPT !.place[i] = n], Looked(r))
    BY <1>1, <1>3, <1>4, AgedSet
  <2> QED
    BY <1>3, <2>1 DEF AgedRing
<1> HIDE DEF m
<1>5. Aged(m, m)
  BY <1>1, AgedSelf
<1>6. HasContent(m) => Aged(Sending(m), m)
  BY <1>1 DEF Sending, Aged, IsMessage, Fields
<1>7. ~HasFailed(Expired(m)) => Aged(Expired(m), m)
  BY <1>1, <1>2 DEF Aged, IsMessage, Fields, Expired
<1>8. Aged([Expired(m) EXCEPT !.active = FALSE], m)
  BY <1>1, <1>2 DEF Aged, IsMessage, Fields, Expired
<1> HIDE DEF i
<1> QED
  BY <1>1, <1>2, <1>4, <1>5, <1>6, <1>7, <1>8 DEF m, i

LEMMA SameMessage ==
  ASSUME NEW m, NEW n, IsMessage(m), IsMessage(n), \A f \in Fields : m[f] = n[f]
  PROVE  m = n
BY DEF IsMessage

(* add_message() alone.                                                       *)
LEMMA PlainAdded ==
  ASSUME NEW r, IsRing(r), CanAdd(r), NEW activity
  PROVE  LET a == Add(r, activity)
             i == AddedAt(r)
             m == Fresh(NextId(r.last), activity, "none", 0, "", 0, KeptQos(r), FALSE)
         IN /\ IsRing(a) /\ a.last = NextId(r.last) /\ i \in Places /\ a.tail = i
            /\ a.place[i] = m
            /\ \A j \in Places \ {i} : a.place[j] = r.place[j]
<1> DEFINE i == AddedAt(r)
           a == Add(r, activity)
           id == NextId(r.last)
           b == Reset(r.place[i])
           x == [b EXCEPT !.active = TRUE, !.id = id, !.activity = activity]
           m == Fresh(id, activity, "none", 0, "", 0, b.qos, FALSE)
<1>1. /\ IsRing(a) /\ a.head = r.head /\ a.tail = i /\ a.last = id
      /\ i \in Places \ Active(r) /\ \A j \in Places \ {i} : a.place[j] = r.place[j]
  BY AddRing
<1>2. a.place[i] = x
  BY <1>1 DEF Add, IsRing
<1>4. /\ IsMessage(b) /\ b.qos = KeptQos(r)
      /\ \A f \in Fields \ {"qos"} : b[f] = Blank[f]
  BY ResetFields DEF KeptQos
<1>5. /\ b.type = "none" /\ b.data = 0 /\ b.tid = 0 /\ b.name = "" /\ ~b.ext /\ b.mos = 0
      /\ ~b.sent /\ b.attempts = 0 /\ ~b.oneshot
      /\ b.ext \in BOOLEAN /\ b.sent \in BOOLEAN /\ b.oneshot \in BOOLEAN
  BY DEF Reset, Blank
<1>3. x = m
  <2> HIDE DEF id, b
  <2>1. IsMessage(x) /\ IsMessage(m)
    BY <1>4 DEF Fresh, IsMessage, Fields
  <2>2. /\ x.active = m.active /\ x.type = m.type /\ x.data = m.data /\ x.tid = m.tid
        /\ x.name = m.name /\ x.id = m.id /\ x.ext = m.ext /\ x.mos = m.mos
        /\ x.qos = m.qos /\ x.activity = m.activity /\ x.sent = m.sent /\ x.attempts = m.attempts
        /\ x.oneshot = m.oneshot
    BY <1>4, <1>5 DEF Fresh, IsMessage, Fields
  <2> HIDE DEF x, m
  <2> QED
    BY <2>1, <2>2, SameMessage DEF Fields
<1> QED
  BY <1>1, <1>2, <1>3, <1>4

LEMMA FreshAdded ==
  ASSUME NEW r, IsRing(r), CanAdd(r), NEW activity, NEW type, NEW tid, NEW name, NEW data,
         NEW qos, NEW oneshot
  PROVE  LET n == AddAbout(r, activity, type, tid, name, data, qos, oneshot)
             i == AddedAt(r)
         IN /\ IsRing(n) /\ n.last = NextId(r.last) /\ i \in Places
            /\ n.place[i] = Fresh(NextId(r.last), activity, type, tid, name, data, qos, oneshot)
            /\ \A j \in Places \ {i} : n.place[j] = r.place[j]
<1> DEFINE i == AddedAt(r)
           a == Add(r, activity)
           b == a.place[i]
           c == [b EXCEPT !.type = type, !.tid = tid, !.name = name, !.data = data,
                          !.qos = qos, !.oneshot = oneshot]
           y == Fresh(NextId(r.last), activity, "none", 0, "", 0, KeptQos(r), FALSE)
           x == Fresh(NextId(r.last), activity, type, tid, name, data, qos, oneshot)
<1>1. /\ IsRing(a) /\ a.tail = i /\ a.last = NextId(r.last) /\ i \in Places
      /\ b = Fresh(NextId(r.last), activity, "none", 0, "", 0, KeptQos(r), FALSE)
      /\ \A j \in Places \ {i} : a.place[j] = r.place[j]
  BY PlainAdded
<1>2. IsMessage(c) /\ IsMessage(x)
  BY <1>1 DEF IsMessage, Fields, Fresh
<1>3. c = x
  <2>1. /\ c.active = x.active /\ c.type = x.type /\ c.data = x.data /\ c.tid = x.tid
        /\ c.name = x.name /\ c.id = x.id /\ c.ext = x.ext /\ c.mos = x.mos
        /\ c.qos = x.qos /\ c.activity = x.activity /\ c.sent = x.sent /\ c.attempts = x.attempts
        /\ c.oneshot = x.oneshot
    <3> HIDE DEF b
    <3>1. b = y
      BY <1>1
    <3> DEFINE e == [y EXCEPT !.type = type, !.tid = tid, !.name = name, !.data = data,
                              !.qos = qos, !.oneshot = oneshot]
    <3>2. /\ e.active = x.active /\ e.type = x.type /\ e.data = x.data /\ e.tid = x.tid
          /\ e.name = x.name /\ e.id = x.id /\ e.ext = x.ext /\ e.mos = x.mos
          /\ e.qos = x.qos /\ e.activity = x.activity /\ e.sent = x.sent /\ e.attempts = x.attempts
          /\ e.oneshot = x.oneshot
      BY DEF Fresh
    <3>3. c = e
      BY <3>1
    <3> QED
      BY <3>2, <3>3
  <2> HIDE DEF c, x
  <2> QED
    BY <1>2, <2>1, SameMessage DEF Fields
<1>4. IsMessage(c) /\ IsRing(a) /\ i \in Places
  BY <1>1, <1>2
<1>5. AddAbout(r, activity, type, tid, name, data, qos, oneshot) = [a EXCEPT !.place[i] = c]
  BY <1>1 DEF AddAbout, IsRing
<1> HIDE DEF i, a, b, c, x
<1>6. LET n == [a EXCEPT !.place[i] = c] IN
        /\ IsRing(n)
        /\ n.head = a.head /\ n.tail = a.tail /\ n.last = a.last
        /\ n.place[i] = c
        /\ \A j \in Places \ {i} : n.place[j] = a.place[j]
  BY <1>4, PlaceSet
<1> QED
  BY <1>1, <1>3, <1>5, <1>6 DEF i, x

----------------------------------------------------------------------------
(* A step of the gateway. What it may rely on:                                *)
GatewayReady ==
  /\ IsRing(gring) /\ \A i \in Places : gring.place[i].qos \in 0 .. 2
  /\ gtopics \in Collections(0 .. MaxId) /\ giter \in 0 .. Len(gtopics)
  /\ messages \in Nat
  /\ handing.tid \in TopicIds /\ handing.qos \in 0 .. 2
  /\ NotInCallback \/ (handing.name \in Names /\ handing.number \in 1 .. messages)
  /\ \A x \in DOMAIN toGateway :
       /\ x.id \in 0 .. MaxId /\ x.qos \in 0 .. 2
       /\ x.type \in {"REGISTER", "SUBSCRIBE"} => x.name \in TopicNames
  /\ \A w \in waiting : w.mid # 0
  /\ \A mid \in pending : mid # 0

(* What its step makes of a message ...                                       *)
Turned(n, m) ==
  \/ Aged(n, m)
  \/ n = Reset(m)
  \/ n = Blank
  \/ n = ReplaceWith(m, "WILLMSGREQ", 0, "willmessage")
  \/ n = ReplaceWith(m, "PUBREL", m.data, "publishing")
  \/ m.mos # 0 /\ \E type \in {"PUBREC", "SUBACK"} : n = [m EXCEPT !.type = type]

(* ... and the message it adds: it asks, tells of a topic, delivers, waits    *)
(* for mosquitto or is given up at once.                                      *)
Named(t) == ~IsWildcard(t)
Telling(n) ==
  \E j \in DOMAIN gtopics', activity \in {"registering", "registeringall"}, qos \in 0 .. 2 :
    /\ Named(gtopics'[j]) /\ gtopics'[j].name \in announced'
    /\ n = Fresh(NextId(gring.last), activity, "REGISTER", gtopics'[j].id, gtopics'[j].name, 0,
                 qos, FALSE)
HandedOver(number) ==
  \/ number = messages' /\ messages' = messages + 1
  \/ number = handing.number /\ ~NotInCallback /\ messages' = messages /\ handing' = NoMessage
Delivering(n) ==
  \E tid \in TopicIds, name \in Names, number \in 1 .. messages', qos \in 0 .. 2,
     oneshot \in BOOLEAN :
    /\ HandedOver(number)
    /\ n = Fresh(NextId(gring.last), "publishing", "PUBLISH", tid, name, number, qos, oneshot)
WaitingFor(n) ==
  /\ mids' = mids + 1
  /\ \E x \in DOMAIN toGateway :
       \/ n = Awaiting(x, "publishing", 0, mids', FALSE)
       \/ /\ x.type = "SUBSCRIBE"
          /\ \E j \in DOMAIN gtopics' :
               gtopics'[j].name = x.name /\ n = Awaiting(x, "subscribing", gtopics'[j].id, mids', TRUE)
AsksWill(n) ==
  \E qos \in 0 .. 2 :
    n = Fresh(NextId(gring.last), "willtopic", "WILLTOPICREQ", 0, "", 0, qos, FALSE)
GivenUp(n) ==
  \E qos \in 0 .. 2 :
    n = [Fresh(NextId(gring.last), "publishing", "none", 0, "", 0, qos, FALSE)
           EXCEPT !.active = FALSE]
NewMessage(n) == AsksWill(n) \/ Telling(n) \/ Delivering(n) \/ WaitingFor(n) \/ GivenUp(n)

RingStep ==
  /\ IsRing(gring')
  /\ \/ gring'.last \in {gring.last, NextId(gring.last)}
     \/ gring'.last = 0 /\ grestarts' = grestarts + 1
  /\ \A i \in Places :
       \/ Turned(gring'.place[i], gring.place[i])
       \/ NewMessage(gring'.place[i]) /\ gring'.last = NextId(gring.last)

LEMMA RingAged ==
  ASSUME AgedRing(gring', gring)
  PROVE  RingStep
BY DEF AgedRing, RingStep, Turned

LEMMA RingSame ==
  ASSUME GatewayReady, gring' = gring
  PROVE  RingStep
BY AgedSame, RingAged DEF GatewayReady

LEMMA RingCleared ==
  ASSUME \/ gring' = Cleared(gring)
         \/ gring' = EmptyRing /\ grestarts' = grestarts + 1
  PROVE  RingStep
<1>1. EmptyRing.last = 0
  BY DEF EmptyRing
<1> QED
  BY <1>1, ClearedRing, EmptyRingFields DEF RingStep, Turned

(* One place of the ring is set.                                              *)
LEMMA RingSet ==
  ASSUME GatewayReady, NEW i \in Places, NEW n, IsMessage(n),
         Turned(n, gring.place[i]),
         NEW r, AgedRing(r, gring), r.place = gring.place, gring' = [r EXCEPT !.place[i] = n]
  PROVE  RingStep
<1>1. /\ IsRing(gring') /\ gring'.last = r.last /\ gring'.place[i] = n
      /\ \A j \in Places \ {i} : gring'.place[j] = r.place[j]
  BY PlaceSet DEF AgedRing
<1>2. \A j \in Places : Turned(gring'.place[j], gring.place[j])
  BY <1>1 DEF AgedRing, Turned
<1> QED
  BY <1>1, <1>2 DEF RingStep, AgedRing

(* A message is added, to a ring that has but grown older.                    *)
LEMMA RingAdded ==
  ASSUME NEW r, AgedRing(r, gring), CanAdd(r),
         NEW activity, NEW type, NEW tid, NEW name, NEW data, NEW qos, NEW oneshot,
         gring' = AddAbout(r, activity, type, tid, name, data, qos, oneshot),
         NewMessage(Fresh(NextId(gring.last), activity, type, tid, name, data, qos, oneshot))
  PROVE  RingStep
<1> DEFINE i == AddedAt(r)
           n == Fresh(NextId(gring.last), activity, type, tid, name, data, qos, oneshot)
<1>1. /\ IsRing(gring') /\ gring'.last = NextId(gring.last) /\ i \in Places
      /\ gring'.place[i] = n
      /\ \A j \in Places \ {i} : gring'.place[j] = r.place[j]
  BY FreshAdded DEF AgedRing
<1> HIDE DEF n, i
<1>2. NewMessage(gring'.place[i])
  BY <1>1 DEF n
<1>3. \A j \in Places : Turned(gring'.place[j], gring.place[j]) \/ NewMessage(gring'.place[j])
  BY <1>1, <1>2 DEF AgedRing, Turned
<1> QED
  BY <1>1, <1>3 DEF RingStep

(* The ring after a CONNECT that brings a will.                               *)
LEMMA RingAsksWill ==
  ASSUME GatewayReady, gring' = AddWith(Cleared(gring), "willtopic", "WILLTOPICREQ", 0)
  PROVE  /\ IsRing(gring') /\ gring'.last = NextId(gring.last)
         /\ \A j \in Places :
              gring'.place[j] = Reset(gring.place[j]) \/ AsksWill(gring'.place[j])
<1> DEFINE r == Cleared(gring)
           i == AddedAt(r)
<1>1. /\ IsRing(r) /\ r.last = gring.last /\ Active(r) = {}
      /\ \A j \in Places : r.place[j] = Reset(gring.place[j])
  BY ClearedRing
<1>2. CanAdd(r)
  BY <1>1 DEF CanAdd, Places
<1>3. PICK a, t, z, e, f, q : gring' = AddAbout(r, a, t, z, e, z, q, f)
                /\ a = "willtopic" /\ t = "WILLTOPICREQ" /\ z = 0 /\ e = "" /\ f = FALSE
                /\ q = KeptQos(r)
  BY DEF AddWith
<1> HIDE DEF r
<1>4. LET c == AddAbout(r, a, t, z, e, z, q, f)
      IN /\ IsRing(c) /\ c.last = NextId(r.last) /\ AddedAt(r) \in Places
         /\ c.place[AddedAt(r)] = Fresh(NextId(r.last), a, t, z, e, z, q, f)
         /\ \A j \in Places \ {AddedAt(r)} : c.place[j] = r.place[j]
  BY <1>1, <1>2, FreshAdded
<1>5. /\ IsRing(gring') /\ gring'.last = NextId(gring.last) /\ i \in Places
      /\ gring'.place[i] = Fresh(NextId(gring.last), a, t, z, e, z, q, f)
      /\ \A j \in Places \ {i} : gring'.place[j] = Reset(gring.place[j])
  BY <1>1, <1>3, <1>4
<1>6. q \in 0 .. 2
  <2>1. q = r.place[i].qos
    BY <1>3, Zenon DEF KeptQos
  <2>2. r.place[i].qos = gring.place[i].qos
    BY <1>1, <1>5, ResetFields
  <2>3. gring.place[i].qos \in 0 .. 2
    BY <1>5 DEF GatewayReady
  <2> QED
    BY <2>1, <2>2, <2>3
<1>7. AsksWill(gring'.place[i])
  BY <1>3, <1>5, <1>6 DEF AsksWill
<1> QED
  BY <1>5, <1>7

LEMMA RingHandshakes ==
  ASSUME GatewayReady,
         ReceiveConnect \/ ReceiveWilltopic \/ ReceiveWillmsg \/ ReceiveDisconnect \/ ReceiveSearchgw
  PROVE  RingStep
<1>1. CASE ReceiveConnect
  <2>1. \/ gring' = Cleared(gring)
        \/ gring' = AddWith(Cleared(gring), "willtopic", "WILLTOPICREQ", 0)
    BY <1>1 DEF ReceiveConnect
  <2>2. CASE gring' = AddWith(Cleared(gring), "willtopic", "WILLTOPICREQ", 0)
    <3>1. \A j \in Places : gring'.place[j] = Reset(gring.place[j]) \/ NewMessage(gring'.place[j])
      BY <2>2, RingAsksWill DEF NewMessage
    <3> QED
      BY <2>2, <3>1, RingAsksWill DEF RingStep, Turned
  <2> QED
    BY <2>1, <2>2, RingCleared
<1>2. CASE ReceiveWilltopic \/ ReceiveWillmsg
  <2> DEFINE i == Current(gring)
             m == gring.place[i]
             n == ReplaceWith(m, "WILLMSGREQ", 0, "willmessage")
  <2>1. \/ gring' = gring \/ gring' = Looked(gring)
        \/ Active(gring) # {} /\ gring' = Deactivate(Looked(gring), i)
        \/ Active(gring) # {} /\ gring' = [Looked(gring) EXCEPT !.place[i] =
                                             ReplaceWith(@, "WILLMSGREQ", 0, "willmessage")]
    BY <1>2 DEF ReceiveWilltopic, ReceiveWillmsg, TurnAway, gatewayVars
  <2>2. AgedRing(Looked(gring), gring) /\ Looked(gring).place = gring.place
    BY AgedSame, LookedRing DEF GatewayReady
  <2>3. Active(gring) # {} => i \in Places /\ IsMessage(m)
    BY CurrentActive DEF GatewayReady, IsRing
  <2>4. CASE Active(gring) # {} /\ gring' = Deactivate(Looked(gring), i)
    BY <2>3, <2>4, AgedLooked, RingAged DEF GatewayReady
  <2>5. CASE Active(gring) # {} /\ gring' = [Looked(gring) EXCEPT !.place[i] =
                                             ReplaceWith(@, "WILLMSGREQ", 0, "willmessage")]
    <3>1. gring' = [Looked(gring) EXCEPT !.place[i] = n]
      BY <2>2, <2>3, <2>5 DEF IsRing, AgedRing
    <3>2. IsMessage(n)
      BY <2>3, <2>5, ReplaceFields
    <3>3. Turned(n, m)
      BY DEF Turned
    <3> HIDE DEF n, i
    <3> QED
      BY <2>2, <2>3, <2>5, <3>1, <3>2, <3>3, RingSet
  <2> QED
    BY <2>1, <2>2, <2>4, <2>5, RingSame, RingAged
<1>3. CASE ReceiveDisconnect \/ ReceiveSearchgw
  <2>1. gring' = gring
    BY <1>3 DEF ReceiveDisconnect, ReceiveSearchgw, gatewayVars
  <2> QED
    BY <2>1, RingSame
<1> QED
  BY <1>1, <1>2, <1>3

(* add_message() and a change of what it made.                                *)
LEMMA RingAddedSet ==
  ASSUME GatewayReady, CanAdd(gring), NEW activity, NEW n, IsMessage(n), NewMessage(n),
         gring' = [Add(gring, activity) EXCEPT !.place[AddedAt(gring)] = n]
  PROVE  RingStep
<1> DEFINE i == AddedAt(gring)
           a == Add(gring, activity)
<1>1. /\ IsRing(a) /\ a.last = NextId(gring.last) /\ i \in Places
      /\ \A j \in Places \ {i} : a.place[j] = gring.place[j]
  BY PlainAdded DEF GatewayReady
<1> HIDE DEF a, i
<1>2. gring' = [a EXCEPT !.place[i] = n]
  BY DEF a, i
<1>3. LET q == [a EXCEPT !.place[i] = n]
      IN /\ IsRing(q) /\ q.last = a.last /\ q.place[i] = n
         /\ \A j \in Places \ {i} : q.place[j] = a.place[j]
  BY <1>1, PlaceSet
<1>4. /\ IsRing(gring') /\ gring'.last = a.last /\ gring'.place[i] = n
      /\ \A j \in Places \ {i} : gring'.place[j] = a.place[j]
  BY <1>2, <1>3
<1>5. \A j \in Places \ {i} : Turned(gring'.place[j], gring.place[j])
  BY <1>1, <1>4, AgedSelf DEF GatewayReady, IsRing, Turned
<1>6. NewMessage(gring'.place[i])
  BY <1>4
<1> QED
  BY <1>1, <1>4, <1>5, <1>6 DEF RingStep

LEMMA RingForwards ==
  ASSUME GatewayReady, NEW p \in DOMAIN toGateway, Forward(p)
  PROVE  RingStep
<1> DEFINE i == AddedAt(gring)
           a == Add(gring, "publishing")
           m == Fresh(NextId(gring.last), "publishing", "none", 0, "", 0, KeptQos(gring), FALSE)
           n == Awaiting(p, "publishing", 0, mids', FALSE)
<1>1. /\ CanAdd(gring) /\ mids' = mids + 1
      /\ gring' = [a EXCEPT !.place[a.tail] =
                   [@ EXCEPT !.mos = mids', !.qos = p.qos, !.id = p.id, !.ext = TRUE]]
  BY DEF Forward, Accept
<1>2. IsRing(a) /\ a.tail = i /\ i \in Places /\ a.place[i] = m
  BY <1>1, PlainAdded DEF GatewayReady
<1>3. [m EXCEPT !.mos = mids', !.qos = p.qos, !.id = p.id, !.ext = TRUE] = n /\ IsMessage(n)
  <2> DEFINE f == [m EXCEPT !.mos = mids', !.qos = p.qos, !.id = p.id, !.ext = TRUE]
  <2>1. IsMessage(f) /\ IsMessage(n)
    BY DEF IsMessage, Fields, Fresh, Awaiting
  <2>2. /\ f.active = n.active /\ f.type = n.type /\ f.data = n.data /\ f.tid = n.tid
        /\ f.name = n.name /\ f.id = n.id /\ f.ext = n.ext /\ f.mos = n.mos
        /\ f.qos = n.qos /\ f.activity = n.activity /\ f.sent = n.sent
        /\ f.attempts = n.attempts /\ f.oneshot = n.oneshot
    BY DEF Fresh, Awaiting
  <2> HIDE DEF f, n
  <2>3. f = n
    BY <2>1, <2>2, SameMessage DEF Fields
  <2> QED
    BY <2>1, <2>3 DEF f
<1> HIDE DEF m, a, i
<1>4. gring' = [a EXCEPT !.place[i] = n]
  BY <1>1, <1>2, <1>3 DEF IsRing
<1>5. NewMessage(n)
  BY <1>1 DEF NewMessage, WaitingFor
<1> HIDE DEF n
<1> QED
  BY <1>1, <1>3, <1>4, <1>5, RingAddedSet DEF a, i

LEMMA RingRefuses ==
  ASSUME GatewayReady, NEW p, Refuse(p)
  PROVE  RingStep
<1> DEFINE i == AddedAt(gring)
           a == Add(gring, "publishing")
           m == Fresh(NextId(gring.last), "publishing", "none", 0, "", 0, KeptQos(gring), FALSE)
           n == [m EXCEPT !.active = FALSE]
<1>1. gring' = gring \/ (CanAdd(gring) /\ gring' = Deactivate(a, i))
  BY DEF Refuse
<1>2. CASE CanAdd(gring) /\ gring' = Deactivate(a, i)
  <2>1. IsRing(a) /\ a.tail = i /\ i \in Places /\ a.place[i] = m
    BY <1>2, PlainAdded DEF GatewayReady
  <2>2. IsMessage(n)
    BY DEF IsMessage, Fields, Fresh
  <2>3. gring' = [a EXCEPT !.place[i] = [a.place[i] EXCEPT !.active = FALSE]]
    BY <1>2, <2>1 DEF Deactivate, IsRing
  <2>4. gring' = [a EXCEPT !.place[i] = n]
    BY <2>1, <2>3
  <2>5. KeptQos(gring) \in 0 .. 2
    BY <2>1 DEF KeptQos, GatewayReady
  <2>6. NewMessage(n)
    BY <2>5 DEF NewMessage, GivenUp
  <2> HIDE DEF n
  <2> QED
    BY <1>2, <2>2, <2>4, <2>6, RingAddedSet
<1> QED
  BY <1>1, <1>2, RingSame

LEMMA RingPublishes ==
  ASSUME GatewayReady, ReceivePublish \/ ReceivePubrel
  PROVE  RingStep
<1>1. CASE ReceivePublish
  <2>1. PICK p \in DOMAIN toGateway : TurnAway \/ Forward(p) \/ Refuse(p)
    BY <1>1 DEF ReceivePublish, ToGateway, BagToSet
  <2>2. CASE TurnAway
    BY <2>2, RingSame DEF TurnAway, gatewayVars
  <2> QED
    BY <2>1, <2>2, RingForwards, RingRefuses
<1>2. CASE ReceivePubrel
  <2>1. PICK p \in ToGateway("PUBREL") :
          \/ gring' = gring
          \/ /\ Matches(gring, p.id, TRUE) # {}
             /\ gring' = Deactivate(gring, Found(gring, p.id, TRUE))
    BY <1>2 DEF ReceivePubrel, TurnAway, gatewayVars
  <2> QED
    BY <2>1, FoundExternal, AgedDeactivate, RingAged, RingSame DEF GatewayReady
<1> QED
  BY <1>1, <1>2

(* The callbacks that end a wait.                                             *)
LEMMA RingCalled ==
  ASSUME GatewayReady, PublishCallback \/ SubscribeCallback
  PROVE  RingStep
<1>1. ASSUME NEW mid, mid # 0, MosMatches(gring, mid) # {}
      PROVE  /\ Lowest(MosMatches(gring, mid)) \in Places
             /\ gring.place[Lowest(MosMatches(gring, mid))].mos # 0
  BY <1>1, LowestMember DEF MosMatches
<1>2. ASSUME NEW i \in Places, gring.place[i].mos # 0, NEW type \in {"PUBREC", "SUBACK"},
             gring' = [gring EXCEPT !.place[i].type = type]
      PROVE  RingStep
  <2> DEFINE m == gring.place[i]
             n == [m EXCEPT !.type = type]
  <2>1. IsMessage(m)
    BY DEF GatewayReady, IsRing
  <2>2. gring' = [gring EXCEPT !.place[i] = n]
    BY <1>2 DEF GatewayReady, IsRing
  <2>3. IsMessage(n)
    BY <2>1 DEF IsMessage, Fields
  <2>4. Turned(n, m)
    BY <1>2 DEF Turned
  <2>5. AgedRing(gring, gring)
    BY AgedSame DEF GatewayReady
  <2> HIDE DEF n
  <2> QED
    BY <2>2, <2>3, <2>4, <2>5, RingSet
<1>3. CASE PublishCallback
  <2>1. PICK w \in waiting : IF gstate = "connected" /\ MosMatches(gring, w.mid) # {}
                             THEN Confirm(Lowest(MosMatches(gring, w.mid)))
                             ELSE UNCHANGED <<gring, toClient>>
    BY <1>3 DEF PublishCallback
  <2>2. CASE MosMatches(gring, w.mid) # {} /\ Confirm(Lowest(MosMatches(gring, w.mid)))
    <3> DEFINE i == Lowest(MosMatches(gring, w.mid))
    <3>1. i \in Places /\ gring.place[i].mos # 0
      BY <1>1, <2>2 DEF GatewayReady
    <3>2. CASE gring.place[i].qos \in {0, 1}
      <4>1. Confirm(i) /\ 0 # 1 /\ 0 # 2 /\ 1 # 2
        BY <2>2
      <4> HIDE DEF i
      <4>2. gring' = Deactivate(gring, i)
        BY <3>2, <4>1, Zenon DEF Confirm
      <4> QED
        BY <3>1, <4>2, AgedDeactivate, RingAged DEF GatewayReady
    <3>3. CASE gring.place[i].qos = 2
      <4>1. gring' = [gring EXCEPT !.place[i].type = "PUBREC"]
        BY <2>2, <3>3 DEF Confirm
      <4>2. PICK type \in {"PUBREC", "SUBACK"} : type = "PUBREC"
        OBVIOUS
      <4> HIDE DEF i
      <4> QED
        BY <1>2, <3>1, <4>1, <4>2
    <3>4. gring.place[i].qos \in 0 .. 2
      BY <3>1 DEF GatewayReady
    <3> QED
      BY <3>2, <3>3, <3>4
  <2> QED
    BY <2>1, <2>2, RingSame
<1>4. CASE SubscribeCallback
  <2>1. PICK mid \in pending :
          \/ gring' = gring
          \/ /\ MosMatches(gring, mid) # {}
             /\ gring' = [gring EXCEPT !.place[Lowest(MosMatches(gring, mid))].type = "SUBACK"]
    BY <1>4 DEF SubscribeCallback, Answered
  <2>2. CASE gring' # gring
    <3> DEFINE i == Lowest(MosMatches(gring, mid))
    <3>1. i \in Places /\ gring.place[i].mos # 0
      BY <1>1, <2>1, <2>2 DEF GatewayReady
    <3>2. PICK type \in {"PUBREC", "SUBACK"} : type = "SUBACK"
      OBVIOUS
    <3>3. gring' = [gring EXCEPT !.place[i].type = "SUBACK"]
      BY <2>1, <2>2
    <3> HIDE DEF i
    <3> QED
      BY <1>2, <3>1, <3>2, <3>3
  <2> QED
    BY <2>1, <2>2, RingSame
<1> QED
  BY <1>3, <1>4

(* register_topic() of a topic that is not a wildcard.                        *)
LEMMA RingRegister ==
  ASSUME GatewayReady, NEW r, AgedRing(r, gring), NEW i \in DOMAIN gtopics', Named(gtopics'[i]),
         NEW all, RegisterTopic(r, i, all)
  PROVE  RingStep
<1>1. CASE gring' = r
  BY <1>1, RingAged
<1>2. CASE /\ CanAdd(r) /\ gtopics'[i].name \in announced'
           /\ \E a \in {"registering", "registeringall"} :
                gring' = AddAbout(r, a, "REGISTER", gtopics'[i].id, gtopics'[i].name, 0,
                                  KeptQos(r), FALSE)
  <2>1. PICK a, t, z, f, q :
            /\ gring' = AddAbout(r, a, t, gtopics'[i].id, gtopics'[i].name, z, q, f)
            /\ a \in {"registering", "registeringall"} /\ t = "REGISTER" /\ z = 0 /\ f = FALSE
            /\ q = KeptQos(r)
    BY <1>2
  <2>2. q \in 0 .. 2
    <3>1. AddedAt(r) \in Places
      BY <1>2, PlainAdded DEF AgedRing
    <3>2. r.place[AddedAt(r)].qos = gring.place[AddedAt(r)].qos
      BY <3>1 DEF AgedRing, Aged, Fields
    <3> QED
      BY <2>1, <3>1, <3>2 DEF KeptQos, GatewayReady
  <2>3. Telling(Fresh(NextId(gring.last), a, t, gtopics'[i].id, gtopics'[i].name, z, q, f))
    BY <1>2, <2>1, <2>2 DEF Telling
  <2> QED
    BY <1>2, <2>1, <2>3, RingAdded DEF NewMessage
<1> QED
  BY <1>1, <1>2 DEF RegisterTopic

LEMMA RingManages ==
  ASSUME GatewayReady, GatewayManage \/ GatewayRestart
  PROVE  RingStep
<1> DEFINE i == Current(gring)
           m == gring.place[i]
<1>1. ASSUME Active(gring) # {}
      PROVE  /\ AgedRing([Looked(gring) EXCEPT !.place[i] = m], gring)
             /\ HasContent(m) => AgedRing([Looked(gring) EXCEPT !.place[i] = Sending(m)], gring)
             /\ ~HasFailed(Expired(m)) =>
                  AgedRing([Looked(gring) EXCEPT !.place[i] = Expired(m)], gring)
             /\ AgedRing([Looked(gring) EXCEPT !.place[i] = [Expired(m) EXCEPT !.active = FALSE]],
                         gring)
  BY <1>1, AgedCurrent DEF GatewayReady
<1>2. CASE GatewayLost
  BY <1>2, RingCleared DEF GatewayLost
<1>3. CASE GatewayWrite(TRUE) \/ GatewayWrite(FALSE)
  <2>1. Active(gring) # {} /\ \/ gring' = [Looked(gring) EXCEPT !.place[i] = m]
                              \/ HasContent(m) /\ gring' = [Looked(gring) EXCEPT !.place[i] = Sending(m)]
    BY <1>3 DEF GatewayWrite, ToSend
  <2> HIDE DEF i, m
  <2> QED
    BY <1>1, <2>1, RingAged
<1>4. CASE GatewayResend
  <2>1. /\ Active(gring) # {} /\ ~HasFailed(Expired(m))
        /\ gring' = [Looked(gring) EXCEPT !.place[i] = Expired(m)]
    BY <1>4 DEF GatewayResend, ToSend
  <2> HIDE DEF i, m
  <2> QED
    BY <1>1, <2>1, RingAged
<1>5. CASE GatewayGiveUp
  <2>1. Active(gring) # {} /\
        \/ gring' = Cleared(gring)
        \/ gring' = [Looked(gring) EXCEPT !.place[i] = [Expired(m) EXCEPT !.active = FALSE]]
    BY <1>5 DEF GatewayGiveUp, ToSend
  <2> HIDE DEF i, m
  <2> QED
    BY <1>1, <2>1, RingAged, RingCleared
<1>6. CASE GatewayIdle
  <2>1. AgedRing(Looked(gring), gring)
    BY AgedSame DEF GatewayReady
  <2>2. /\ gtopics' = gtopics
        /\ \/ gring' = Looked(gring)
           \/ giter' = FirstNamed(gtopics, 1) /\ giter' # 0 /\ RegisterTopic(Looked(gring), giter', TRUE)
    BY <1>6 DEF GatewayIdle
  <2>3. CASE gring' = Looked(gring)
    BY <2>1, <2>3, RingAged
  <2>4. CASE giter' = FirstNamed(gtopics, 1) /\ giter' # 0 /\ RegisterTopic(Looked(gring), giter', TRUE)
    <3>1. Len(gtopics) \in Nat /\ DOMAIN gtopics = 1 .. Len(gtopics)
      BY CollectionLength DEF GatewayReady
    <3>2. giter' \in 1 .. Len(gtopics) /\ ~IsWildcard(gtopics[giter'])
      BY <2>4, <3>1, FirstNamedFound
    <3> QED
      BY <2>1, <2>2, <2>4, <3>1, <3>2, RingRegister DEF Named
  <2> QED
    BY <2>2, <2>3, <2>4
<1>7. CASE GatewayRestart
  BY <1>7, RingCleared DEF GatewayRestart
<1> QED
  BY <1>2, <1>3, <1>4, <1>5, <1>6, <1>7 DEF GatewayManage

LEMMA RingSubscribes ==
  ASSUME GatewayReady, NEW p \in DOMAIN toGateway, p.type = "SUBSCRIBE",
         NEW topics, NEW i, topics \in Collections(0 .. MaxId), i \in DOMAIN topics,
         topics[i].name = p.name, SubscribeTo(p, topics, i)
  PROVE  RingStep
<1> DEFINE k == AddedAt(gring)
           a == Add(gring, "subscribing")
           m == Fresh(NextId(gring.last), "subscribing", "none", 0, "", 0, KeptQos(gring), FALSE)
           n == Awaiting(p, "subscribing", topics[i].id, mids', TRUE)
<1>1. CASE ~CanAdd(gring)
  BY <1>1, RingSame DEF SubscribeTo
<1>2. CASE CanAdd(gring)
  <2>1. /\ mids' = mids + 1
        /\ gring' = [a EXCEPT !.place[a.tail] =
                       [@ EXCEPT !.tid = topics[i].id, !.id = p.id, !.ext = TRUE,
                                 !.qos = p.qos, !.mos = mids', !.oneshot = TRUE]]
    BY <1>2 DEF SubscribeTo
  <2>2. IsRing(a) /\ a.tail = k /\ k \in Places /\ a.place[k] = m
    BY <1>2, PlainAdded DEF GatewayReady
  <2>3. /\ [m EXCEPT !.tid = topics[i].id, !.id = p.id, !.ext = TRUE,
                     !.qos = p.qos, !.mos = mids', !.oneshot = TRUE] = n
        /\ IsMessage(n)
    <3> DEFINE c == [m EXCEPT !.tid = topics[i].id, !.id = p.id, !.ext = TRUE,
                              !.qos = p.qos, !.mos = mids', !.oneshot = TRUE]
    <3>1. IsMessage(c) /\ IsMessage(n)
      BY DEF IsMessage, Fields, Fresh, Awaiting
    <3>2. /\ c.active = n.active /\ c.type = n.type /\ c.data = n.data /\ c.tid = n.tid
          /\ c.name = n.name /\ c.id = n.id /\ c.ext = n.ext /\ c.mos = n.mos
          /\ c.qos = n.qos /\ c.activity = n.activity /\ c.sent = n.sent
          /\ c.attempts = n.attempts /\ c.oneshot = n.oneshot
      BY DEF Fresh, Awaiting
    <3> HIDE DEF c, n
    <3>3. c = n
      BY <3>1, <3>2, SameMessage DEF Fields
    <3> QED
      BY <3>1, <3>3 DEF c, n
  <2> HIDE DEF m, a, k
  <2>4. gring' = [a EXCEPT !.place[k] = n]
    BY <2>1, <2>2, <2>3 DEF IsRing
  <2>5. i \in DOMAIN gtopics' /\ gtopics'[i].name = p.name /\ gtopics'[i].id = topics[i].id
    <3>1. /\ gtopics' = [topics EXCEPT ![i] = [[topics[i] EXCEPT !.qos = p.qos] EXCEPT !.subscribed = TRUE]]
          /\ i \in 1 .. Len(topics) /\ topics[i] \in ATopic(0 .. MaxId)
      BY CollectionLength, CollectionsAre DEF SubscribeTo
    <3>2. p.qos \in 0 .. 2
      BY DEF GatewayReady
    <3> DEFINE t == [[topics[i] EXCEPT !.qos = p.qos] EXCEPT !.subscribed = TRUE]
    <3>3. t \in ATopic(0 .. MaxId) /\ t.name = topics[i].name /\ t.id = topics[i].id
      BY <3>1, <3>2 DEF ATopic
    <3>5. gtopics' = [topics EXCEPT ![i] = t]
      BY <3>1
    <3> DEFINE nums == 0 .. MaxId
    <3>7. topics \in Collections(nums) /\ i \in 1 .. Len(topics) /\ t \in ATopic(nums)
      BY <3>1, <3>3
    <3> HIDE DEF t, nums
    <3>8. LET q == [topics EXCEPT ![i] = t] IN
           q \in Collections(nums) /\ Len(q) = Len(topics) /\ q[i] = t
      BY <3>7, TopicSet
    <3>6. LET q == [topics EXCEPT ![i] = t] IN
           q \in Collections(0 .. MaxId) /\ Len(q) = Len(topics) /\ q[i] = t
      BY <3>8 DEF nums
    <3>4. gtopics'[i] = t /\ gtopics' \in Collections(0 .. MaxId) /\ Len(gtopics') = Len(topics)
      BY <3>5, <3>6
    <3> QED
      BY <3>1, <3>3, <3>4, CollectionLength
  <2>6. NewMessage(n)
    BY <2>1, <2>5 DEF NewMessage, WaitingFor
  <2> HIDE DEF n
  <2> QED
    BY <1>2, <2>3, <2>4, <2>6, RingAddedSet DEF a, k
<1> QED
  BY <1>1, <1>2

LEMMA RingTopics ==
  ASSUME GatewayReady, GatewayTopicsHandler
  PROVE  RingStep
<1>1. TurnAway => RingStep
  BY RingSame DEF TurnAway, gatewayVars
<1>2. CASE ReceiveTopic
  <2>1. TurnAway \/ gring' = gring
    BY <1>2 DEF ReceiveTopic, Handle
  <2> QED
    BY <1>1, <2>1, RingSame
<1>3. CASE ReceiveSubscribe
  <2>1. PICK p \in ToGateway("SUBSCRIBE") :
          LET topics == AddTopic(gtopics, p.name, p.id)
              i == ByName(topics, p.name)
          IN TurnAway \/ gring' = gring \/ SubscribeTo(p, topics, i)
    BY <1>3 DEF ReceiveSubscribe, Handle, SubscribeFails
  <2>2. p \in DOMAIN toGateway /\ p.type = "SUBSCRIBE" /\ p.name \in TopicNames /\ p.id \in 0 .. MaxId
    BY DEF ToGateway, BagToSet, GatewayReady
  <2> DEFINE topics == AddTopic(gtopics, p.name, p.id)
             i == ByName(topics, p.name)
  <2>3. topics \in Collections(0 .. MaxId) /\ i \in 1 .. Len(topics) /\ topics[i].name = p.name
    BY <2>2, AddTopicGrows DEF GatewayReady
  <2>4. TurnAway \/ gring' = gring \/ SubscribeTo(p, topics, i)
    BY <2>1
  <2> HIDE DEF topics, i
  <2>5. i \in DOMAIN topics
    BY <2>3, CollectionLength
  <2>6. CASE SubscribeTo(p, topics, i)
    BY <2>2, <2>3, <2>5, <2>6, RingSubscribes
  <2> QED
    BY <1>1, <2>4, <2>6, RingSame
<1>4. CASE ReceiveTopicAck
  <2>1. PICK p \in ToGateway("REGACK") :
          \/ TurnAway \/ gring' = gring
          \/ /\ Matches(gring, p.id, FALSE) # {} /\ gtopics' = gtopics
             /\ LET r == Deactivate(gring, Found(gring, p.id, FALSE)) IN
                  \/ gring' = r
                  \/ /\ giter' = Following(gtopics, giter) /\ giter' # 0
                     /\ RegisterTopic(r, giter', TRUE)
    BY <1>4 DEF ReceiveTopicAck, Handle
  <2> DEFINE r == Deactivate(gring, Found(gring, p.id, FALSE))
  <2>2. CASE /\ Matches(gring, p.id, FALSE) # {} /\ gtopics' = gtopics
             /\ \/ gring' = r
                \/ /\ giter' = Following(gtopics, giter) /\ giter' # 0
                   /\ RegisterTopic(r, giter', TRUE)
    <3>1. AgedRing(r, gring)
      BY <2>2, FoundOwn, AgedDeactivate DEF GatewayReady
    <3>2. Len(gtopics) \in Nat /\ DOMAIN gtopics = 1 .. Len(gtopics)
      BY CollectionLength DEF GatewayReady
    <3>3. ASSUME giter' = Following(gtopics, giter), giter' # 0
          PROVE  giter' \in DOMAIN gtopics' /\ Named(gtopics'[giter'])
      <4> DEFINE j == Following(gtopics, giter)
      <4>1. giter \in 0 .. Len(gtopics)
        BY DEF GatewayReady
      <4>2. j \in 0 .. Len(gtopics) /\ (j # 0 => ~IsWildcard(gtopics[j]))
        BY <3>2, <4>1, FollowingFound
      <4>3. gtopics' = gtopics /\ giter' = j /\ j # 0
        BY <2>2, <3>3
      <4> HIDE DEF j
      <4> QED
        BY <3>2, <4>2, <4>3 DEF Named
    <3> HIDE DEF r
    <3>4. PICK all : all = TRUE
      OBVIOUS
    <3>5. gring' = r \/ (giter' \in DOMAIN gtopics' /\ Named(gtopics'[giter'])
                         /\ RegisterTopic(r, giter', all))
      BY <2>2, <3>3, <3>4
    <3>6. ASSUME giter' \in DOMAIN gtopics', Named(gtopics'[giter']), RegisterTopic(r, giter', all)
          PROVE  RingStep
      BY <3>1, <3>6, RingRegister
    <3> QED
      BY <3>1, <3>5, <3>6, RingAged
  <2> QED
    BY <1>1, <2>1, <2>2, RingSame
<1>5. CASE ReceiveDelivered \/ ReceiveCompleted
  <2>1. \E p \in DOMAIN toGateway :
          \/ TurnAway \/ gring' = gring
          \/ /\ Matches(gring, p.id, FALSE) # {}
             /\ gring' = Deactivate(gring, Found(gring, p.id, FALSE))
    BY <1>5 DEF ReceiveDelivered, ReceiveCompleted, Handle, ToGateway, BagToSet
  <2> QED
    BY <1>1, <2>1, FoundOwn, AgedDeactivate, RingAged, RingSame DEF GatewayReady
<1>6. CASE ReceiveRecorded
  <2>1. PICK p \in ToGateway("PUBREC") :
          \/ TurnAway \/ gring' = gring
          \/ /\ Matches(gring, p.id, FALSE) # {}
             /\ gring' = [gring EXCEPT !.place[Found(gring, p.id, FALSE)] =
                           ReplaceWith(@, "PUBREL", @.data, "publishing")]
    BY <1>6 DEF ReceiveRecorded, Handle
  <2> DEFINE i == Found(gring, p.id, FALSE)
             m == gring.place[i]
             n == ReplaceWith(m, "PUBREL", m.data, "publishing")
  <2>2. CASE /\ Matches(gring, p.id, FALSE) # {}
             /\ gring' = [gring EXCEPT !.place[i] = ReplaceWith(@, "PUBREL", @.data, "publishing")]
    <3>1. i \in Places /\ IsMessage(m)
      BY <2>2, FoundOwn DEF GatewayReady, IsRing
    <3>2. gring' = [gring EXCEPT !.place[i] = n]
      BY <2>2, <3>1 DEF GatewayReady, IsRing
    <3>3. IsMessage(n)
      BY <3>1, ReplaceFields
    <3>4. Turned(n, m) /\ AgedRing(gring, gring)
      BY AgedSame DEF Turned, GatewayReady
    <3> HIDE DEF i, n
    <3> QED
      BY <3>1, <3>2, <3>3, <3>4, RingSet
  <2> QED
    BY <1>1, <2>1, <2>2, RingSame
<1> QED
  BY <1>2, <1>3, <1>4, <1>5, <1>6 DEF GatewayTopicsHandler

----------------------------------------------------------------------------
(* The types of messages and rings, field by field.                           *)
TypedMessage(m, types, datas, nums, tids, names) ==
  /\ IsMessage(m)
  /\ m.active \in BOOLEAN /\ m.type \in types \cup {"none"} /\ m.data \in datas /\ m.tid \in tids
  /\ m.name \in names /\ m.id \in 0 .. MaxId /\ m.ext \in BOOLEAN /\ m.mos \in nums
  /\ m.qos \in 0 .. 2 /\ m.activity \in Activities /\ m.sent \in BOOLEAN
  /\ m.attempts \in 0 .. Nretry /\ m.oneshot \in BOOLEAN

LEMMA MessagesAre ==
  ASSUME NEW m, NEW types, NEW datas, NEW nums, NEW tids, NEW names
  PROVE  m \in Messages(types, datas, nums, tids, names)
           <=> TypedMessage(m, types, datas, nums, tids, names)
BY DEF Messages, TypedMessage, IsMessage, Fields

LEMMA RingsAre ==
  ASSUME NEW r, NEW types, NEW datas, NEW nums, NEW tids, NEW names
  PROVE  r \in Rings(types, datas, nums, tids, names)
           <=> /\ IsRing(r) /\ r.last \in 0 .. MaxId
               /\ \A i \in Places : TypedMessage(r.place[i], types, datas, nums, tids, names)
<1> DEFINE M == Messages(types, datas, nums, tids, names)
<1>1. \A m : m \in M <=> TypedMessage(m, types, datas, nums, tids, names)
  BY MessagesAre
<1>2. \A m : TypedMessage(m, types, datas, nums, tids, names) => IsMessage(m)
  BY DEF TypedMessage
<1> HIDE DEF M
<1>3. r \in [place : [Places -> M], head : Places, tail : Places, last : 0 .. MaxId]
           <=> /\ IsRing(r) /\ r.last \in 0 .. MaxId
               /\ \A i \in Places : r.place[i] \in M
  BY <1>1, <1>2 DEF IsRing
<1> QED
  BY <1>1, <1>3 DEF Rings, M

LEMMA RingDelivery ==
  ASSUME GatewayReady, NEW tid \in TopicIds, NEW name \in Names, NEW qos \in 0 .. 2,
         NEW number \in 1 .. messages', HandedOver(number),
         gring' = Delivery(gring, tid, name, qos, number)
  PROVE  RingStep
<1>1. CASE ~CanAdd(gring)
  BY <1>1, RingSame DEF Delivery
<1>2. CASE CanAdd(gring)
  <2>1. PICK a, y, f : gring' = AddAbout(gring, a, y, tid, name, number, qos, f)
                    /\ a = "publishing" /\ y = "PUBLISH" /\ f = (qos = 0)
    BY <1>2 DEF Delivery
  <2>2. f \in BOOLEAN
    BY <2>1
  <2>3. Delivering(Fresh(NextId(gring.last), a, y, tid, name, number, qos, f))
    BY <2>1, <2>2 DEF Delivering
  <2>4. NewMessage(Fresh(NextId(gring.last), a, y, tid, name, number, qos, f))
    BY <2>3 DEF NewMessage
  <2>5. AgedRing(gring, gring)
    BY AgedSame DEF GatewayReady
  <2> QED
    BY <1>2, <2>1, <2>4, <2>5, RingAdded
<1> QED
  BY <1>1, <1>2

(* The topic a message of that name is delivered by, when it had none.        *)
LEMMA NewlyNamed ==
  ASSUME GatewayReady, NEW name \in Names, ByName(gtopics, name) = 0, NEW qos \in 0 .. 2,
         NEW topics, topics = AddTopic(gtopics, name, 0),
         gtopics' = [topics EXCEPT ![Len(topics)].qos = qos]
  PROVE  /\ Len(topics) \in DOMAIN gtopics' /\ Named(gtopics'[Len(topics)])
         /\ topics[Len(topics)].id \in TopicIds
<1> DEFINE j == Len(topics)
<1>1. name \in TopicNames /\ 0 \in 0 .. MaxId /\ name \notin Filters
  BY NamesAssumption DEF TopicNames
<1>2. /\ topics \in Collections(0 .. MaxId)
      /\ topics[j].name = name /\ j \in 1 .. j
  BY <1>1, AddTopicGrows DEF GatewayReady
<1>3. topics[j] \in ATopic(0 .. MaxId) /\ j \in DOMAIN topics
  BY <1>2, CollectionLength
<1> DEFINE t == topics[j]
<1>4. DOMAIN gtopics' = DOMAIN topics /\ gtopics'[j] = [t EXCEPT !.qos = qos]
  BY <1>2, <1>3, CollectionsAre
<1>5. t = [f \in {"name", "id", "mid", "complete", "subscribed", "qos"} |-> t[f]]
  BY <1>3 DEF ATopic
<1>6. t.id \in TopicIds
  BY <1>3 DEF ATopic
<1> HIDE DEF t
<1>7. [t EXCEPT !.qos = qos].name = t.name
  BY <1>5
<1> QED
  BY <1>1, <1>2, <1>3, <1>4, <1>6, <1>7 DEF t, Named, IsWildcard

LEMMA RingDelivers ==
  ASSUME GatewayReady, MessageCallback
  PROVE  RingStep
<1>1. PICK name \in Names :
         /\ messages' = messages + 1
         /\ \/ gring' = gring
            \/ /\ giter' = FirstMatch(gtopics, name)
               /\ giter' # 0
               /\ DoPublishTopic(giter', name)
  BY DEF MessageCallback, FirstMatch
<1>2. CASE gring' = gring
  BY <1>2, RingSame
<1>3. CASE /\ giter' = FirstMatch(gtopics, name)
           /\ giter' # 0
           /\ DoPublishTopic(giter', name)
  <2> DEFINE i == giter'
             known == IF IsWildcard(gtopics[i]) THEN ByName(gtopics, name) ELSE i
             qos == gtopics[i].qos
  <2>1. /\ Len(gtopics) \in Nat /\ DOMAIN gtopics = 1 .. Len(gtopics)
        /\ \A j \in 1 .. Len(gtopics) : gtopics[j] \in ATopic(0 .. MaxId)
    BY CollectionLength DEF GatewayReady
  <2>2. i \in 1 .. Len(gtopics)
    BY <1>3, <2>1, MatchFound
  <2>3. qos \in 0 .. 2
    BY <2>1, <2>2 DEF ATopic
  <2>4. CASE known # 0 /\ DeliverKnown(known, name, qos)
    <3>1. known \in 1 .. Len(gtopics)
      BY <2>1, <2>2, <2>4, ByNameFound
    <3>2. gtopics[known].id \in TopicIds
      BY <2>1, <3>1 DEF ATopic
    <3>3. messages' \in 1 .. messages' /\ HandedOver(messages')
      BY <1>1 DEF GatewayReady, HandedOver
    <3> HIDE DEF qos, known
    <3>4. gring' = Delivery(gring, gtopics[known].id, name, qos, messages')
      BY <2>4 DEF DeliverKnown
    <3> QED
      BY <2>3, <3>2, <3>3, <3>4, RingDelivery
  <2>5. CASE known = 0 /\ DeliverNew(name, qos)
    <3> DEFINE topics == AddTopic(gtopics, name, 0)
               j == Len(topics)
    <3>1. ByName(gtopics, name) = 0
      BY <2>2, <2>5
    <3>2. /\ gtopics' = [topics EXCEPT ![j].qos = qos]
          /\ RegisterTopic(gring, j, gsend)
      BY <2>5 DEF DeliverNew
    <3>3. topics = AddTopic(gtopics, name, 0)
      OBVIOUS
    <3> HIDE DEF qos, topics
    <3>4. j \in DOMAIN gtopics' /\ Named(gtopics'[j])
      BY <2>3, <3>1, <3>2, <3>3, NewlyNamed
    <3>5. AgedRing(gring, gring)
      BY AgedSame DEF GatewayReady
    <3> HIDE DEF j
    <3> QED
      BY <3>2, <3>4, <3>5, RingRegister
  <2> QED
    BY <1>3, <2>4, <2>5 DEF DoPublishTopic
<1> QED
  BY <1>1, <1>2, <1>3

LEMMA RingHandsOver ==
  ASSUME GatewayReady, MessageTail
  PROVE  RingStep
<1>1. /\ ~NotInCallback /\ messages' = messages /\ handing' = NoMessage
      /\ gring' = Delivery(gring, handing.tid, handing.name, handing.qos, handing.number)
  BY DEF MessageTail
<1>2. /\ handing.tid \in TopicIds /\ handing.name \in Names /\ handing.qos \in 0 .. 2
      /\ handing.number \in 1 .. messages'
  BY <1>1 DEF GatewayReady
<1>3. HandedOver(handing.number)
  BY <1>1 DEF HandedOver
<1> QED
  BY <1>1, <1>2, <1>3, RingDelivery

LEMMA RingSteps ==
  ASSUME GatewayReady, GatewayNext \/ GatewayTopicsNext
  PROVE  RingStep
BY RingHandshakes, RingPublishes, RingCalled, RingManages, RingTopics, RingDelivers,
   RingHandsOver
   DEF GatewayNext, GatewayTopicsNext, GatewayHandler

----------------------------------------------------------------------------
(* What the gateway writes in a step: a message of its ring, an answer to the *)
(* packet it takes, or that the broker confirmed a publish.                   *)
SaidOf(x, p) ==
  \/ p.type = "PUBLISH" /\ \E code \in {1, 2} : x = Packet("PUBACK", p.id, 0, code)
  \/ p.type = "PUBREL" /\ x = Packet("PUBCOMP", p.id, 0, 0)
  \/ p.type = "SUBSCRIBE" /\ \E code \in {1, 2} : x = Packet("SUBACK", p.id, 0, code)
  \/ /\ p.type \in {"REGISTER", "SUBSCRIBE"}
     /\ \E j \in DOMAIN gtopics', type \in {"REGACK", "SUBACK"} :
          /\ gtopics'[j].name = p.name
          /\ x = PacketAbout(type, p.id, 0, 0, gtopics'[j].id, "")
SaidToClient(x) ==
  \/ \E i \in Places :
       LET m == gring.place[i]
       IN \/ m.active /\ HasContent(m) /\ x = Resent(m)
          \/ m.mos # 0 /\ x = Packet("PUBACK", m.id, 0, 0)
  \/ \E type \in {"CONNACK", "DISCONNECT", "GWINFO"} : x = Plain(type)
  \/ \E p \in DOMAIN toGateway : SaidOf(x, p)
SayStep ==
  /\ DOMAIN toGateway' \subseteq DOMAIN toGateway
  /\ \A x \in DOMAIN toClient' : x \in DOMAIN toClient \/ SaidToClient(x)

(* The collection of topics grows, or is forgotten.                           *)
Forgotten ==
  /\ gtopics' = <<>> /\ gsend' = FALSE
  /\ \/ /\ \E p \in DOMAIN toGateway : p.type = "CONNECT" /\ p.data \div 2 = 1
        /\ \/ gring' = Cleared(gring)
           \/ gring' = AddWith(Cleared(gring), "willtopic", "WILLTOPICREQ", 0)
        /\ \A x \in DOMAIN toClient' : x \in DOMAIN toClient \/ x = Plain("CONNACK")
     \/ grestarts' = grestarts + 1
TopicStep ==
  /\ gtopics' \in Collections(0 .. MaxId)
  /\ giter' \in 0 .. Len(gtopics')
  /\ Grown(gtopics', gtopics) \/ Forgotten

LEMMA SaysNothing ==
  ASSUME DOMAIN toGateway' \subseteq DOMAIN toGateway, toClient' = toClient
  PROVE  SayStep
BY DEF SayStep

LEMMA Says ==
  ASSUME DOMAIN toGateway' \subseteq DOMAIN toGateway, NEW x, SaidToClient(x), Answer(x)
  PROVE  SayStep
<1>1. DOMAIN toClient' \subseteq DOMAIN toClient \cup {x}
  BY PacketWritten DEF Answer
<1> QED
  BY <1>1 DEF SayStep

LEMMA SaysPlain ==
  ASSUME DOMAIN toGateway' \subseteq DOMAIN toGateway, NEW type \in {"CONNACK", "DISCONNECT", "GWINFO"},
         Answer(Plain(type))
  PROVE  SayStep
<1>1. SaidToClient(Plain(type))
  BY DEF SaidToClient
<1> QED
  BY <1>1, Says

LEMMA SaysOf ==
  ASSUME DOMAIN toGateway' \subseteq DOMAIN toGateway, NEW p \in DOMAIN toGateway,
         NEW x, SaidOf(x, p), Answer(x)
  PROVE  SayStep
<1>1. SaidToClient(x)
  BY DEF SaidToClient
<1> QED
  BY <1>1, Says

LEMMA TopicsSame ==
  ASSUME GatewayReady, gtopics' = gtopics, giter' = giter
  PROVE  TopicStep
<1>1. Len(gtopics) \in Nat
  BY CollectionLength DEF GatewayReady
<1> QED
  BY <1>1 DEF TopicStep, Grown, GatewayReady

LEMMA TurnedAside ==
  ASSUME GatewayReady, DOMAIN toGateway' \subseteq DOMAIN toGateway, TurnAway
  PROVE  SayStep /\ TopicStep
<1>1. Answer(Plain("DISCONNECT")) /\ gtopics' = gtopics /\ giter' = giter
  BY DEF TurnAway, gatewayVars, topicVars
<1>2. SayStep
  BY <1>1, SaysPlain
<1> QED
  BY <1>1, <1>2, TopicsSame

LEMMA SaysHandshakes ==
  ASSUME GatewayReady,
         ReceiveConnect \/ ReceiveWilltopic \/ ReceiveWillmsg \/ ReceiveDisconnect \/ ReceiveSearchgw
  PROVE  SayStep /\ TopicStep
<1>1. CASE ReceiveConnect
  <2>1. PICK p \in ToGateway("CONNECT") :
          /\ Take(p)
          /\ \/ p.data \div 2 = 1 /\ gtopics' = <<>> /\ giter' = 0
             \/ gtopics' = gtopics /\ giter' = giter
          /\ gsend' = (p.data \div 2 = 0)
          /\ toClient' = toClient \/ Answer(Plain("CONNACK"))
          /\ \/ gring' = Cleared(gring)
             \/ gring' = AddWith(Cleared(gring), "willtopic", "WILLTOPICREQ", 0)
    BY <1>1 DEF ReceiveConnect, TopicsAfter
  <2>2. DOMAIN toGateway' \subseteq DOMAIN toGateway
    BY <2>1, PacketTaken DEF Take
  <2>3. p \in DOMAIN toGateway /\ p.type = "CONNECT"
    BY DEF ToGateway, BagToSet
  <2>4. SayStep
    BY <2>1, <2>2, SaysNothing, SaysPlain
  <2>5. CASE p.data \div 2 = 1 /\ gtopics' = <<>> /\ giter' = 0
    <3>1. gtopics' \in Collections(0 .. MaxId) /\ giter' \in 0 .. Len(gtopics')
      <4>1. gtopics' \in Seq(ATopic(0 .. MaxId)) /\ Len(gtopics') = 0
        BY <2>5
      <4>2. giter' \in 0 .. Len(gtopics')
        BY <2>5, <4>1
      <4> DEFINE nums == 0 .. MaxId
      <4>3. Collections(nums) = Seq(ATopic(nums))
        BY CollectionsAre
      <4> QED
        BY <4>1, <4>2, <4>3
    <3>2. \A x \in DOMAIN toClient' : x \in DOMAIN toClient \/ x = Plain("CONNACK")
      <4>1. CASE Answer(Plain("CONNACK"))
        <5>1. DOMAIN toClient' \subseteq DOMAIN toClient \cup {Plain("CONNACK")}
          BY <4>1, PacketWritten DEF Answer
        <5> QED
          BY <5>1
      <4> QED
        BY <2>1, <4>1
    <3>4. gsend' = FALSE
      <4> DEFINE half == p.data \div 2
      <4>1. half = 1 /\ gsend' = (half = 0)
        BY <2>1, <2>5
      <4> HIDE DEF half
      <4>2. 1 # 0
        OBVIOUS
      <4> QED
        BY <4>1, <4>2, Zenon
    <3>3. Forgotten
      BY <2>1, <2>3, <2>5, <3>2, <3>4 DEF Forgotten
    <3> QED
      BY <2>4, <2>5, <3>1, <3>3 DEF TopicStep
  <2> QED
    BY <2>1, <2>4, <2>5, TopicsSame
<1>2. CASE ReceiveWilltopic \/ ReceiveWillmsg \/ ReceiveDisconnect \/ ReceiveSearchgw
  <2>1. PICK p :
          /\ Take(p)
          /\ gtopics' = gtopics /\ giter' = giter
          /\ \/ toClient' = toClient
             \/ Answer(Plain("CONNACK")) \/ Answer(Plain("DISCONNECT")) \/ Answer(Plain("GWINFO"))
    BY <1>2 DEF ReceiveWilltopic, ReceiveWillmsg, ReceiveDisconnect, ReceiveSearchgw, TurnAway,
                gatewayVars, topicVars
  <2>2. DOMAIN toGateway' \subseteq DOMAIN toGateway
    BY <2>1, PacketTaken DEF Take
  <2>3. SayStep
    BY <2>1, <2>2, SaysNothing, SaysPlain
  <2> QED
    BY <2>1, <2>3, TopicsSame
<1> QED
  BY <1>1, <1>2

LEMMA SaysPublishes ==
  ASSUME GatewayReady, ReceivePublish \/ ReceivePubrel
  PROVE  SayStep /\ TopicStep
<1>1. CASE ReceivePublish
  <2>1. PICK p \in ToGateway("PUBLISH") :
          /\ Take(p)
          /\ \/ TurnAway
             \/ /\ gtopics' = gtopics /\ giter' = giter
                /\ \/ toClient' = toClient
                   \/ Answer(Packet("PUBACK", p.id, 0, 1)) \/ Answer(Packet("PUBACK", p.id, 0, 2))
    BY <1>1 DEF ReceivePublish, Forward, Refuse, topicVars
  <2>2. DOMAIN toGateway' \subseteq DOMAIN toGateway
    BY <2>1, PacketTaken DEF Take
  <2>3. p \in DOMAIN toGateway /\ p.type = "PUBLISH"
    BY DEF ToGateway, BagToSet
  <2>4. /\ SaidOf(Packet("PUBACK", p.id, 0, 1), p)
        /\ SaidOf(Packet("PUBACK", p.id, 0, 2), p)
    BY <2>3 DEF SaidOf
  <2> QED
    BY <2>1, <2>2, <2>3, <2>4, SaysOf, SaysNothing, TopicsSame, TurnedAside
<1>2. CASE ReceivePubrel
  <2>1. PICK p \in ToGateway("PUBREL") :
          /\ Take(p)
          /\ \/ TurnAway
             \/ /\ gtopics' = gtopics /\ giter' = giter
                /\ toClient' = toClient \/ Answer(Packet("PUBCOMP", p.id, 0, 0))
    BY <1>2 DEF ReceivePubrel, topicVars
  <2>2. DOMAIN toGateway' \subseteq DOMAIN toGateway
    BY <2>1, PacketTaken DEF Take
  <2>3. p \in DOMAIN toGateway /\ p.type = "PUBREL"
    BY DEF ToGateway, BagToSet
  <2>4. SaidOf(Packet("PUBCOMP", p.id, 0, 0), p)
    BY <2>3 DEF SaidOf
  <2> QED
    BY <2>1, <2>2, <2>3, <2>4, SaysOf, SaysNothing, TopicsSame, TurnedAside
<1> QED
  BY <1>1, <1>2

LEMMA SaysCalled ==
  ASSUME GatewayReady, PublishCallback \/ SubscribeCallback
  PROVE  SayStep /\ TopicStep
<1>1. CASE SubscribeCallback
  <2>1. /\ toGateway' = toGateway /\ toClient' = toClient
        /\ gtopics' = gtopics /\ giter' = giter
    BY <1>1 DEF SubscribeCallback, radioVars, topicVars
  <2> QED
    BY <2>1, SaysNothing, TopicsSame
<1>2. CASE PublishCallback
  <2>1. PICK w \in waiting : IF gstate = "connected" /\ MosMatches(gring, w.mid) # {}
                             THEN Confirm(Lowest(MosMatches(gring, w.mid)))
                             ELSE UNCHANGED <<gring, toClient>>
    BY <1>2 DEF PublishCallback
  <2>2. toGateway' = toGateway /\ gtopics' = gtopics /\ giter' = giter
    BY <1>2 DEF PublishCallback, topicVars
  <2>3. CASE MosMatches(gring, w.mid) # {} /\ Confirm(Lowest(MosMatches(gring, w.mid)))
    <3> DEFINE i == Lowest(MosMatches(gring, w.mid))
    <3>1. i \in Places /\ gring.place[i].mos # 0
      <4>1. w.mid # 0
        BY DEF GatewayReady
      <4>2. i \in MosMatches(gring, w.mid)
        BY <2>3, LowestMember DEF MosMatches
      <4> QED
        BY <4>1, <4>2 DEF MosMatches
    <3> DEFINE m == gring.place[i]
    <3>2. Confirm(i)
      BY <2>3
    <3>3. m.qos = 0 \/ m.qos = 1 \/ m.qos = 2
      <4> HIDE DEF i
      <4>1. m.qos \in 0 .. 2
        BY <3>1 DEF GatewayReady
      <4> HIDE DEF m
      <4> QED
        BY <4>1
    <3>4. 0 # 1 /\ 0 # 2 /\ 1 # 2
      OBVIOUS
    <3> HIDE DEF i
    <3>6. toClient' = toClient \/ Answer(Packet("PUBACK", m.id, 0, 0))
      <4>1. CASE m.qos = 0
        BY <3>2, <3>4, <4>1, Zenon DEF Confirm
      <4>2. CASE m.qos = 1
        BY <3>2, <3>4, <4>2, Zenon DEF Confirm
      <4>3. CASE m.qos = 2
        BY <3>2, <3>4, <4>3, Zenon DEF Confirm
      <4> QED
        BY <3>3, <4>1, <4>2, <4>3
    <3>7. SaidToClient(Packet("PUBACK", m.id, 0, 0))
      BY <3>1 DEF SaidToClient
    <3>5. SayStep
      BY <2>2, <3>6, <3>7, Says, SaysNothing
    <3> QED
      BY <2>2, <3>5, TopicsSame
  <2> QED
    BY <2>1, <2>2, <2>3, SaysNothing, TopicsSame
<1> QED
  BY <1>1, <1>2

LEMMA SaysManages ==
  ASSUME GatewayReady, GatewayManage \/ GatewayRestart
  PROVE  SayStep /\ TopicStep
<1> DEFINE i == Current(gring)
           m == gring.place[i]
<1>1. CASE GatewayLost
  <2>1. /\ Answer(Plain("DISCONNECT")) /\ toGateway' = toGateway
        /\ gtopics' = gtopics /\ giter' = giter
    BY <1>1 DEF GatewayLost, topicVars
  <2> QED
    BY <2>1, SaysPlain, TopicsSame
<1>2. CASE GatewayWrite(TRUE) \/ GatewayWrite(FALSE) \/ GatewayResend
  <2>1. /\ Active(gring) # {} /\ HasContent(m) /\ toGateway' = toGateway
        /\ gtopics' = gtopics /\ giter' = giter
    BY <1>2 DEF GatewayWrite, GatewayResend, ToSend, topicVars
  <2>2. i \in Places /\ m.active
    BY <2>1, CurrentActive DEF GatewayReady, Active
  <2>3. Answer(Resent(m)) \/ Answer(Resent(Expired(m)))
    BY <1>2 DEF GatewayWrite, GatewayResend
  <2>4. Resent(Expired(m)) = Resent(m)
    <3>1. IsMessage(m)
      BY <2>2 DEF GatewayReady, IsRing
    <3> HIDE DEF m
    <3>2. LET e == Expired(m) IN
            e.type = m.type /\ e.id = m.id /\ e.qos = m.qos /\ e.data = m.data /\ e.tid = m.tid
              /\ e.name = m.name
      BY <3>1, ExpiredFields DEF Fields
    <3> HIDE DEF Expired
    <3> QED
      BY <3>2 DEF Resent
  <2>5. SaidToClient(Resent(m))
    BY <2>1, <2>2 DEF SaidToClient
  <2> HIDE DEF m, i
  <2> QED
    BY <2>1, <2>3, <2>4, <2>5, Says, TopicsSame
<1>3. CASE GatewayGiveUp
  <2>1. /\ toGateway' = toGateway /\ toClient' = toClient /\ gtopics' = gtopics /\ giter' = giter
    BY <1>3 DEF GatewayGiveUp, topicVars, radioVars
  <2> QED
    BY <2>1, SaysNothing, TopicsSame
<1>4. CASE GatewayIdle
  <2>1. /\ toGateway' = toGateway /\ toClient' = toClient /\ gtopics' = gtopics
        /\ giter' = giter \/ giter' = FirstNamed(gtopics, 1)
    BY <1>4 DEF GatewayIdle, radioVars
  <2>2. Len(gtopics) \in Nat
    BY CollectionLength DEF GatewayReady
  <2>3. giter' \in 0 .. Len(gtopics)
    BY <2>1, <2>2, FirstNamedFound DEF GatewayReady
  <2>4. TopicStep
    BY <2>1, <2>2, <2>3 DEF TopicStep, Grown, GatewayReady
  <2> QED
    BY <2>1, <2>4, SaysNothing
<1>5. CASE GatewayRestart
  <2>1. /\ toGateway' = EmptyBag /\ toClient' = toClient /\ gtopics' = <<>> /\ giter' = 0
        /\ grestarts' = grestarts + 1 /\ gsend' = FALSE
    BY <1>5 DEF GatewayRestart
  <2>2. gtopics' \in Collections(0 .. MaxId) /\ giter' \in 0 .. Len(gtopics')
    <3>1. gtopics' \in Seq(ATopic(0 .. MaxId)) /\ Len(gtopics') = 0
      BY <2>1
    <3>2. giter' \in 0 .. Len(gtopics')
      BY <2>1, <3>1
    <3> DEFINE nums == 0 .. MaxId
    <3>3. Collections(nums) = Seq(ATopic(nums))
      BY CollectionsAre
    <3> QED
      BY <3>1, <3>2, <3>3
  <2>3. TopicStep
    BY <2>1, <2>2 DEF TopicStep, Forgotten
  <2>4. SayStep
    BY <2>1, SaysNothing, NoPackets
  <2> QED
    BY <2>3, <2>4
<1> QED
  BY <1>1, <1>2, <1>3, <1>4, <1>5 DEF GatewayManage

LEMMA SaysDelivers ==
  ASSUME GatewayReady, MessageCallback
  PROVE  SayStep /\ TopicStep
<1>1. SayStep
  <2>1. toGateway' = toGateway /\ toClient' = toClient
    BY DEF MessageCallback, radioVars
  <2> QED
    BY <2>1, SaysNothing
<1>2. PICK name \in Names :
        \/ giter' = giter /\ gtopics' = gtopics
        \/ /\ giter' = FirstMatch(gtopics, name)
           /\ \/ gtopics' = gtopics
              \/ /\ ByName(gtopics, name) = 0
                 /\ giter' # 0
                 /\ LET topics == AddTopic(gtopics, name, 0)
                        j == Len(topics)
                    IN gtopics' = [topics EXCEPT ![j].qos = gtopics[giter'].qos]
  BY DEF MessageCallback, FirstMatch, DoPublishTopic, DeliverKnown, DeliverNew
<1>3. /\ Len(gtopics) \in Nat
      /\ \A j \in 1 .. Len(gtopics) : gtopics[j] \in ATopic(0 .. MaxId)
  BY CollectionLength DEF GatewayReady
<1>4. CASE giter' = giter /\ gtopics' = gtopics
  BY <1>1, <1>4, TopicsSame
<1>5. CASE giter' = FirstMatch(gtopics, name) /\ gtopics' = gtopics
  <2>1. giter' \in 0 .. Len(gtopics)
    BY <1>3, <1>5, MatchFound
  <2>2. TopicStep
    BY <1>3, <1>5, <2>1 DEF TopicStep, Grown, GatewayReady
  <2> QED
    BY <1>1, <2>2
<1>6. CASE /\ giter' = FirstMatch(gtopics, name) /\ giter' # 0
           /\ ByName(gtopics, name) = 0
           /\ LET topics == AddTopic(gtopics, name, 0)
                  j == Len(topics)
              IN gtopics' = [topics EXCEPT ![j].qos = gtopics[giter'].qos]
  <2> DEFINE topics == AddTopic(gtopics, name, 0)
             j == Len(topics)
             nums == 0 .. MaxId
             qos == gtopics[giter'].qos
  <2>1. name \in TopicNames /\ 0 \in nums /\ gtopics \in Collections(nums)
    BY DEF TopicNames, GatewayReady
  <2>2. giter' \in 1 .. Len(gtopics)
    BY <1>3, <1>6, MatchFound
  <2>3. qos \in 0 .. 2
    BY <1>3, <2>2 DEF ATopic
  <2>4. gtopics' = [topics EXCEPT ![j].qos = qos]
    BY <1>6
  <2> HIDE DEF nums, qos
  <2>5. topics \in Collections(nums) /\ Grown(topics, gtopics) /\ j \in 1 .. j
    BY <1>6, <2>1, AddTopicGrows
  <2>6. j \in 1 .. Len(topics)
    BY <2>5
  <2> HIDE DEF topics, j
  <2>7. [topics EXCEPT ![j].qos = qos] \in Collections(nums) /\ Grown([topics EXCEPT ![j].qos = qos], gtopics)
    BY <1>3, <2>3, <2>5, <2>6, TopicChanged
  <2>8. gtopics' \in Collections(nums) /\ Grown(gtopics', gtopics)
    BY <2>4, <2>7
  <2>9. giter' \in 0 .. Len(gtopics')
    <3>1. Len(gtopics') \in {Len(gtopics), Len(gtopics) + 1}
      BY <2>8 DEF Grown
    <3> QED
      BY <1>3, <2>2, <3>1
  <2> QED
    BY <1>1, <2>8, <2>9 DEF TopicStep, nums
<1> QED
  BY <1>2, <1>4, <1>5, <1>6

LEMMA SaysHandsOver ==
  ASSUME GatewayReady, MessageTail
  PROVE  SayStep /\ TopicStep
<1>1. toGateway' = toGateway /\ toClient' = toClient /\ gtopics' = gtopics /\ giter' = giter
  BY DEF MessageTail, radioVars
<1> QED
  BY <1>1, SaysNothing, TopicsSame

LEMMA TopicsGrow ==
  ASSUME GatewayReady, gtopics' \in Collections(0 .. MaxId), Grown(gtopics', gtopics), giter' = giter
  PROVE  TopicStep
<1>1. Len(gtopics) \in Nat
  BY CollectionLength DEF GatewayReady
<1>2. giter' \in 0 .. Len(gtopics')
  BY <1>1 DEF Grown, GatewayReady
<1> QED
  BY <1>2 DEF TopicStep

LEMMA SaysRegistered ==
  ASSUME GatewayReady, ReceiveTopic
  PROVE  SayStep /\ TopicStep
<1>1. PICK p \in ToGateway("REGISTER") :
        /\ Take(p)
        /\ \/ TurnAway
           \/ /\ gtopics' = AddTopic(gtopics, p.name, p.id) /\ giter' = giter
              /\ Answer(PacketAbout("REGACK", p.id, 0, 0, gtopics'[ByName(gtopics', p.name)].id, ""))
  BY DEF ReceiveTopic, Handle
<1>2. DOMAIN toGateway' \subseteq DOMAIN toGateway
  BY <1>1, PacketTaken DEF Take
<1>3. p \in DOMAIN toGateway /\ p.type = "REGISTER" /\ p.name \in TopicNames /\ p.id \in 0 .. MaxId
  BY DEF ToGateway, BagToSet, GatewayReady
<1>4. CASE /\ gtopics' = AddTopic(gtopics, p.name, p.id) /\ giter' = giter
           /\ Answer(PacketAbout("REGACK", p.id, 0, 0, gtopics'[ByName(gtopics', p.name)].id, ""))
  <2> DEFINE nums == 0 .. MaxId
             n == AddTopic(gtopics, p.name, p.id)
             i == ByName(n, p.name)
  <2>1. p.name \in TopicNames /\ p.id \in nums /\ gtopics \in Collections(nums)
    BY <1>3 DEF GatewayReady
  <2> HIDE DEF nums
  <2>2. n \in Collections(nums) /\ Grown(n, gtopics) /\ i \in 1 .. Len(n) /\ n[i].name = p.name
    BY <2>1, AddTopicGrows
  <2> HIDE DEF n
  <2>3. gtopics' = n /\ Answer(PacketAbout("REGACK", p.id, 0, 0, gtopics'[i].id, ""))
    BY <1>4 DEF n
  <2>4. i \in DOMAIN gtopics' /\ gtopics'[i].name = p.name
    BY <2>2, <2>3, CollectionLength
  <2> HIDE DEF i
  <2>5. SaidOf(PacketAbout("REGACK", p.id, 0, 0, gtopics'[i].id, ""), p)
    BY <1>3, <2>4 DEF SaidOf
  <2>6. TopicStep
    BY <1>4, <2>2, <2>3, TopicsGrow DEF nums
  <2> QED
    BY <1>2, <1>3, <2>3, <2>5, <2>6, SaysOf
<1> QED
  BY <1>1, <1>2, <1>4, TurnedAside

LEMMA SaysSubscribed ==
  ASSUME GatewayReady, ReceiveSubscribe
  PROVE  SayStep /\ TopicStep
<1>1. PICK p \in ToGateway("SUBSCRIBE") :
        /\ Take(p)
        /\ LET topics == AddTopic(gtopics, p.name, p.id)
               i == ByName(topics, p.name)
           IN \/ TurnAway
              \/ /\ giter' = giter
                 /\ gtopics' \in {topics, [topics EXCEPT ![i].qos = p.qos],
                                  [topics EXCEPT ![i].qos = p.qos, ![i].subscribed = TRUE]}
                 /\ \/ toClient' = toClient
                    \/ /\ gtopics' = topics
                       /\ Answer(PacketAbout("SUBACK", p.id, 0, 0, topics[i].id, ""))
                    \/ Answer(Packet("SUBACK", p.id, 0, 1))
                    \/ Answer(Packet("SUBACK", p.id, 0, 2))
  BY DEF ReceiveSubscribe, Handle, SubscribeTo, SubscribeFails
<1>2. DOMAIN toGateway' \subseteq DOMAIN toGateway
  BY <1>1, PacketTaken DEF Take
<1>3. p \in DOMAIN toGateway /\ p.type = "SUBSCRIBE" /\ p.name \in TopicNames /\ p.id \in 0 .. MaxId
      /\ p.qos \in 0 .. 2
  BY DEF ToGateway, BagToSet, GatewayReady
<1>4. Len(gtopics) \in Nat
  BY CollectionLength DEF GatewayReady
<1> DEFINE nums == 0 .. MaxId
           topics == AddTopic(gtopics, p.name, p.id)
           i == ByName(topics, p.name)
<1>5. CASE /\ giter' = giter
           /\ gtopics' \in {topics, [topics EXCEPT ![i].qos = p.qos],
                            [topics EXCEPT ![i].qos = p.qos, ![i].subscribed = TRUE]}
           /\ \/ toClient' = toClient
              \/ /\ gtopics' = topics
                 /\ Answer(PacketAbout("SUBACK", p.id, 0, 0, topics[i].id, ""))
              \/ Answer(Packet("SUBACK", p.id, 0, 1))
              \/ Answer(Packet("SUBACK", p.id, 0, 2))
  <2>1. p.name \in TopicNames /\ p.id \in nums /\ gtopics \in Collections(nums)
    BY <1>3 DEF GatewayReady
  <2> HIDE DEF nums
  <2>2. /\ topics \in Collections(nums) /\ Grown(topics, gtopics) /\ i \in 1 .. Len(topics)
        /\ topics[i].name = p.name
    BY <2>1, AddTopicGrows
  <2> HIDE DEF topics, i
  <2>3. gtopics' \in Collections(nums) /\ Grown(gtopics', gtopics)
    <3> DEFINE qos == p.qos
    <3>1. qos \in 0 .. 2
      BY <1>3
    <3>2. gtopics' \in {topics, [topics EXCEPT ![i].qos = qos],
                        [topics EXCEPT ![i].qos = qos, ![i].subscribed = TRUE]}
      BY <1>5
    <3> HIDE DEF qos
    <3>3. /\ [topics EXCEPT ![i].qos = qos] \in Collections(nums)
          /\ Grown([topics EXCEPT ![i].qos = qos], gtopics)
          /\ [topics EXCEPT ![i].qos = qos, ![i].subscribed = TRUE] \in Collections(nums)
          /\ Grown([topics EXCEPT ![i].qos = qos, ![i].subscribed = TRUE], gtopics)
      BY <1>4, <2>2, <3>1, TopicChanged
    <3> QED
      BY <2>2, <3>2, <3>3
  <2>4. TopicStep
    BY <1>5, <2>3, TopicsGrow DEF nums
  <2>5. i \in DOMAIN topics
    BY <2>2, CollectionLength
  <2>6. gtopics' = topics => SaidOf(PacketAbout("SUBACK", p.id, 0, 0, topics[i].id, ""), p)
    BY <1>3, <2>2, <2>5 DEF SaidOf
  <2>7. SaidOf(Packet("SUBACK", p.id, 0, 1), p) /\ SaidOf(Packet("SUBACK", p.id, 0, 2), p)
    BY <1>3 DEF SaidOf
  <2>8. SayStep
    BY <1>2, <1>3, <1>5, <2>6, <2>7, SaysOf, SaysNothing
  <2> QED
    BY <2>4, <2>8
<1>6. TurnAway \/ (/\ giter' = giter
           /\ gtopics' \in {topics, [topics EXCEPT ![i].qos = p.qos],
                            [topics EXCEPT ![i].qos = p.qos, ![i].subscribed = TRUE]}
           /\ \/ toClient' = toClient
              \/ /\ gtopics' = topics
                 /\ Answer(PacketAbout("SUBACK", p.id, 0, 0, topics[i].id, ""))
              \/ Answer(Packet("SUBACK", p.id, 0, 1))
              \/ Answer(Packet("SUBACK", p.id, 0, 2)))
  BY <1>1
<1> QED
  BY <1>2, <1>5, <1>6, TurnedAside

LEMMA SaysTopics ==
  ASSUME GatewayReady, GatewayTopicsHandler
  PROVE  SayStep /\ TopicStep
<1>1. CASE ReceiveTopicAck
  <2>1. PICK p \in ToGateway("REGACK") :
          /\ Take(p)
          /\ \/ TurnAway
             \/ /\ toClient' = toClient /\ gtopics' = gtopics
                /\ giter' = giter \/ giter' = Following(gtopics, giter)
    BY <1>1 DEF ReceiveTopicAck, Handle
  <2>2. DOMAIN toGateway' \subseteq DOMAIN toGateway
    BY <2>1, PacketTaken DEF Take
  <2>3. CASE /\ toClient' = toClient /\ gtopics' = gtopics
             /\ giter' = giter \/ giter' = Following(gtopics, giter)
    <3>1. Len(gtopics) \in Nat
      BY CollectionLength DEF GatewayReady
    <3>2. giter' \in 0 .. Len(gtopics)
      BY <2>3, <3>1, FollowingFound DEF GatewayReady
    <3>3. TopicStep
      BY <2>3, <3>1, <3>2 DEF TopicStep, Grown, GatewayReady
    <3> QED
      BY <2>2, <2>3, <3>3, SaysNothing
  <2> QED
    BY <2>1, <2>2, <2>3, TurnedAside
<1>2. CASE ReceiveDelivered \/ ReceiveRecorded \/ ReceiveCompleted
  <2>1. PICK p :
          /\ Take(p)
          /\ \/ TurnAway
             \/ toClient' = toClient /\ gtopics' = gtopics /\ giter' = giter
    BY <1>2 DEF ReceiveDelivered, ReceiveRecorded, ReceiveCompleted, Handle
  <2>2. DOMAIN toGateway' \subseteq DOMAIN toGateway
    BY <2>1, PacketTaken DEF Take
  <2> QED
    BY <2>1, <2>2, SaysNothing, TopicsSame, TurnedAside
<1> QED
  BY <1>1, <1>2, SaysRegistered, SaysSubscribed DEF GatewayTopicsHandler

LEMMA SaySteps ==
  ASSUME GatewayReady, GatewayNext \/ GatewayTopicsNext
  PROVE  SayStep /\ TopicStep
BY SaysHandshakes, SaysPublishes, SaysCalled, SaysManages, SaysTopics, SaysDelivers,
   SaysHandsOver
   DEF GatewayNext, GatewayTopicsNext, GatewayHandler

(* The broker hands a message over, or takes one for delivered.               *)
Receipt(x) == (x.type = "PUBACK" /\ x.data = 0) \/ x.type = "PUBCOMP"
BrokerStep ==
  \/ messages' = messages /\ confirmed' = confirmed
  \/ messages < MaxMessages /\ messages' = messages + 1 /\ confirmed' = confirmed
  \/ /\ messages' = messages
     /\ \E x \in DOMAIN toGateway, i \in Places :
          LET m == gring.place[i]
          IN /\ Receipt(x) /\ ~m.ext /\ m.id = x.id /\ m.data # 0
             /\ confirmed' = confirmed \cup {m.data}

LEMMA BrokerSteps ==
  ASSUME GatewayNext \/ GatewayTopicsNext
  PROVE  BrokerStep
<1>1. CASE GatewayHandler
  BY <1>1 DEF GatewayHandler, ReceiveConnect, ReceiveWilltopic, ReceiveWillmsg, ReceiveDisconnect,
              ReceiveSearchgw, ReceivePublish, ReceivePubrel, TurnAway, gatewayVars, topicVars,
              BrokerStep
<1>2. CASE PublishCallback \/ GatewayManage \/ GatewayRestart
  BY <1>2 DEF PublishCallback, GatewayManage, GatewayLost, GatewayWrite, GatewayResend,
              GatewayGiveUp, GatewayIdle, GatewayRestart, topicVars, BrokerStep
<1>3. CASE GatewayTopicsHandler
  <2>1. messages' = messages
    BY <1>3 DEF GatewayTopicsHandler
  <2>2. CASE ReceiveTopic \/ ReceiveSubscribe \/ ReceiveTopicAck \/ ReceiveRecorded
    <3>1. confirmed' = confirmed
      BY <2>2 DEF ReceiveTopic, ReceiveSubscribe, ReceiveTopicAck, ReceiveRecorded, Handle, TurnAway,
                  gatewayVars, topicVars
    <3> QED
      BY <2>1, <3>1 DEF BrokerStep
  <2>3. CASE ReceiveDelivered \/ ReceiveCompleted
    <3>1. PICK x \in ToGateway("PUBACK") \cup ToGateway("PUBCOMP") :
            \/ confirmed' = confirmed
            \/ /\ Matches(gring, x.id, FALSE) # {} /\ Receipt(x)
               /\ confirmed' = Acknowledged(gring.place[Found(gring, x.id, FALSE)])
      BY <2>3 DEF ReceiveDelivered, ReceiveCompleted, Handle, TurnAway, gatewayVars, topicVars,
                  ToGateway, Receipt
    <3>2. x \in DOMAIN toGateway
      BY DEF ToGateway, BagToSet
    <3>3. CASE /\ Matches(gring, x.id, FALSE) # {} /\ Receipt(x)
               /\ confirmed' = Acknowledged(gring.place[Found(gring, x.id, FALSE)])
      <4> DEFINE i == Found(gring, x.id, FALSE)
      <4>1. i \in Places /\ gring.place[i].id = x.id /\ ~gring.place[i].ext
        BY <3>3, FoundOwn
      <4>2. confirmed' = Acknowledged(gring.place[i])
        BY <3>3
      <4> HIDE DEF i
      <4> QED
        BY <2>1, <3>2, <3>3, <4>1, <4>2 DEF Acknowledged, BrokerStep
    <3> QED
      BY <2>1, <3>1, <3>3 DEF BrokerStep
  <2> QED
    BY <1>3, <2>2, <2>3 DEF GatewayTopicsHandler
<1>4. CASE SubscribeCallback \/ MessageCallback \/ MessageTail
  BY <1>4 DEF SubscribeCallback, MessageCallback, MessageTail, topicVars, BrokerStep
<1> QED
  BY <1>1, <1>2, <1>3, <1>4 DEF GatewayNext, GatewayTopicsNext

(* What becomes of the message whose callback has lost the lock.              *)
HandingStep ==
  \/ handing' = handing /\ (messages' = messages \/ messages' = messages + 1)
  \/ handing' = NoMessage /\ (messages' = messages \/ messages' = messages + 1)
  \/ /\ NotInCallback /\ messages' = messages + 1
     /\ \E tid \in TopicIds, name \in Names, qos \in 0 .. 2 :
          handing' = [tid |-> tid, name |-> name, qos |-> qos, number |-> messages']
  \/ /\ ~NotInCallback /\ messages' = messages
     /\ \E tid \in TopicIds : handing' = [handing EXCEPT !.tid = tid]

LEMMA HandingDelivers ==
  ASSUME GatewayReady, MessageCallback
  PROVE  HandingStep
<1>1. PICK name \in Names :
         /\ messages' = messages + 1 /\ NotInCallback
         /\ \/ handing' = handing
            \/ /\ giter' = FirstMatch(gtopics, name)
               /\ giter' # 0
               /\ DoPublishTopic(giter', name)
  BY DEF MessageCallback, FirstMatch
<1>2. CASE handing' = handing
  BY <1>1, <1>2 DEF HandingStep
<1>3. CASE /\ giter' = FirstMatch(gtopics, name)
           /\ giter' # 0
           /\ DoPublishTopic(giter', name)
  <2> DEFINE qos == gtopics[giter'].qos
             topics == AddTopic(gtopics, name, 0)
             j == Len(topics)
  <2>1. /\ Len(gtopics) \in Nat /\ DOMAIN gtopics = 1 .. Len(gtopics)
        /\ \A k \in 1 .. Len(gtopics) : gtopics[k] \in ATopic(0 .. MaxId)
    BY CollectionLength DEF GatewayReady
  <2>2. giter' \in 1 .. Len(gtopics)
    BY <1>3, <2>1, MatchFound
  <2>3. qos \in 0 .. 2
    BY <2>1, <2>2 DEF ATopic
  <2>4. \/ handing' = handing
        \/ /\ ByName(gtopics, name) = 0
           /\ gtopics' = [topics EXCEPT ![j].qos = qos]
           /\ handing' = [tid |-> topics[j].id, name |-> name, qos |-> qos, number |-> messages']
    BY <1>3, <2>2 DEF DoPublishTopic, DeliverKnown, DeliverNew
  <2>5. topics = AddTopic(gtopics, name, 0)
    OBVIOUS
  <2> HIDE DEF qos, topics
  <2>6. CASE /\ ByName(gtopics, name) = 0
             /\ gtopics' = [topics EXCEPT ![j].qos = qos]
             /\ handing' = [tid |-> topics[j].id, name |-> name, qos |-> qos, number |-> messages']
    <3>1. topics[j].id \in TopicIds
      BY <2>3, <2>5, <2>6, NewlyNamed
    <3> QED
      BY <1>1, <2>3, <2>6, <3>1 DEF HandingStep
  <2> QED
    BY <1>2, <2>4, <2>6
<1> QED
  BY <1>1, <1>2, <1>3

LEMMA HandingSteps ==
  ASSUME GatewayReady, GatewayNext \/ GatewayTopicsNext
  PROVE  HandingStep
<1>1. CASE ReceiveConnect
  <2>1. messages' = messages
    BY <1>1 DEF ReceiveConnect
  <2>2. \/ handing' = handing
        \/ ~NotInCallback /\ \E tid \in TopicIds : handing' = [handing EXCEPT !.tid = tid]
    BY <1>1 DEF ReceiveConnect, HandingAfter
  <2> QED
    BY <2>1, <2>2 DEF HandingStep
<1>2. CASE GatewayHandler /\ ~ReceiveConnect
  BY <1>2 DEF GatewayHandler, ReceiveWilltopic, ReceiveWillmsg, ReceiveDisconnect,
              ReceiveSearchgw, ReceivePublish, ReceivePubrel, TurnAway, gatewayVars, topicVars,
              HandingStep
<1>3. CASE PublishCallback \/ GatewayManage \/ GatewayRestart \/ SubscribeCallback
  BY <1>3 DEF PublishCallback, GatewayManage, GatewayLost, GatewayWrite, GatewayResend,
              GatewayGiveUp, GatewayIdle, GatewayRestart, SubscribeCallback, topicVars, HandingStep
<1>4. CASE GatewayTopicsHandler
  BY <1>4 DEF GatewayTopicsHandler, HandingStep
<1>5. CASE MessageTail
  BY <1>5 DEF MessageTail, HandingStep
<1> QED
  BY <1>1, <1>2, <1>3, <1>4, <1>5, HandingDelivers DEF GatewayNext, GatewayTopicsNext

----------------------------------------------------------------------------
(* A step of the client. What it may rely on:                                 *)
ClientReady ==
  /\ IsRing(cring) /\ cring.last \in 0 .. MaxId
  /\ \A i \in Places :
       /\ cring.place[i].sent => HasContent(cring.place[i])
       /\ cring.place[i].qos \in 0 .. 2
  /\ ctopics \in Collections(0 .. MaxId)
  /\ \A x \in DOMAIN toClient :
       /\ x.id \in 0 .. MaxId /\ x.tid \in TopicIds
       /\ x.type = "REGISTER" => x.name \in TopicNames

(* Its topics. Each of them was there, or is asked for now, or the gateway    *)
(* told of it, or it was confirmed.                                           *)
Awaits(t, k) == t.mid = k /\ ~t.complete
OwnId == NextId(cring.last)
NewlyAsked(k) == k = OwnId /\ cring'.last = OwnId
TopicKept(t) ==
  \E i \in DOMAIN ctopics :
    /\ t.name = ctopics[i].name /\ t.id = ctopics[i].id
    /\ \A k : Awaits(t, k) => NewlyAsked(k) \/ Awaits(ctopics[i], k)
TopicAsked(t) == t.id = 0 /\ \A k : Awaits(t, k) => NewlyAsked(k)
TopicTold(t) ==
  \E x \in DOMAIN toClient :
    /\ x.type = "REGISTER"
    /\ t.name = x.name /\ t.id \in {0, x.tid} /\ \A k : Awaits(t, k) => k = 0
TopicConfirmed(t) ==
  \E x \in DOMAIN toClient, i \in DOMAIN ctopics :
    /\ x.type \in {"REGACK", "SUBACK"}
    /\ Awaits(ctopics[i], x.id)
    /\ t.name = ctopics[i].name /\ t.id \in {ctopics[i].id, x.tid} /\ t.complete
TopicTurn(t) == TopicKept(t) \/ TopicAsked(t) \/ TopicTold(t) \/ TopicConfirmed(t)
ListStep ==
  /\ ctopics' \in Collections(0 .. MaxId)
  /\ \A i \in DOMAIN ctopics' : TopicTurn(ctopics'[i])
  /\ ctopics' = <<>> \/ ctopics' = ctopics \/ cstate = "connected"

LEMMA NextIdType == \A last \in 0 .. MaxId : NextId(last) \in 1 .. MaxId
BY DEF NextId

LEMMA ListSame ==
  ASSUME ClientReady, ctopics' = ctopics
  PROVE  ListStep
BY DEF ListStep, TopicTurn, TopicKept, ClientReady

LEMMA ListCleared ==
  ASSUME ctopics' = <<>>
  PROVE  ListStep
<1>1. ctopics' \in Seq(ATopic(0 .. MaxId)) /\ Len(ctopics') = 0
  OBVIOUS
<1> DEFINE nums == 0 .. MaxId
<1>2. Collections(nums) = Seq(ATopic(nums))
  BY CollectionsAre
<1>3. DOMAIN ctopics' = {}
  BY <1>1
<1> QED
  BY <1>1, <1>2, <1>3 DEF ListStep

(* reg_topic(): its topic is there, or the last one.                          *)
LEMMA RegTopicAdds ==
  ASSUME NEW topics, NEW nums, topics \in Collections(nums), NEW name \in TopicNames, NEW mid \in nums
  PROVE  LET n == RegTopic(topics, name, mid)
             i == ByName(n, name)
         IN /\ n \in Collections(nums) /\ i \in 1 .. Len(n) /\ n[i].name = name
            /\ Len(n) \in {Len(topics), Len(topics) + 1}
            /\ \A j \in 1 .. Len(topics) : n[j] = topics[j]
            /\ \A j \in Len(topics) + 1 .. Len(n) :
                 n[j].name = name /\ n[j].id = 0 /\ n[j].mid = mid
<1>1. Len(topics) \in Nat
  BY CollectionLength
<1>2. CASE ByName(topics, name) # 0
  <2>1. RegTopic(topics, name, mid) = topics
    BY <1>2 DEF RegTopic
  <2>2. LET i == ByName(topics, name) IN i \in 1 .. Len(topics) /\ topics[i].name = name
    BY <1>1, <1>2, ByNameFound
  <2> QED
    BY <1>1, <2>1, <2>2
<1>3. CASE ByName(topics, name) = 0
  <2> DEFINE z == 0
             t == NewTopic(name, z, mid)
             u == Completed(t, z)
             v == IF topics # <<>> /\ IsWildcard(t) THEN u ELSE t
             n == Append(topics, v)
  <2>1. z \in TopicIds
    BY DEF TopicIds
  <2> HIDE DEF z
  <2>2. /\ t \in ATopic(nums) /\ u \in ATopic(nums)
        /\ t.name = name /\ u.name = name /\ t.mid = mid /\ u.mid = mid
        /\ t.id \in {0, z} /\ u.id = t.id
    BY <2>1, NewTopicType
  <2>3. v \in ATopic(nums) /\ v.name = name /\ v.mid = mid /\ v.id = 0
    BY <2>2 DEF z
  <2>4. RegTopic(topics, name, mid) = n
    BY <1>3 DEF RegTopic, z
  <2> HIDE DEF v
  <2>5. /\ n \in Collections(nums) /\ Len(n) = Len(topics) + 1
        /\ n[Len(topics) + 1] = v
        /\ \A j \in 1 .. Len(topics) : n[j] = topics[j]
    BY <2>3, Appended
  <2> HIDE DEF n
  <2>6. ByName(n, name) # 0 /\ ByName(n, name) \in 0 .. Len(n) /\ n[ByName(n, name)].name = name
    BY <1>1, <2>3, <2>5, ByNameFound
  <2> QED
    BY <1>1, <2>3, <2>4, <2>5, <2>6
<1> QED
  BY <1>2, <1>3

(* create_topic().                                                            *)
LEMMA CreateTopicAdds ==
  ASSUME NEW topics, NEW nums, topics \in Collections(nums), NEW name \in TopicNames,
         NEW tid \in TopicIds, 0 \in nums
  PROVE  LET n == CreateTopic(topics, name, tid)
         IN /\ n \in Collections(nums) /\ Len(n) \in {Len(topics), Len(topics) + 1}
            /\ \A j \in 1 .. Len(topics) : n[j] = topics[j]
            /\ \A j \in Len(topics) + 1 .. Len(n) :
                 n[j].name = name /\ n[j].id \in {0, tid} /\ n[j].mid = 0
<1>1. Len(topics) \in Nat
  BY CollectionLength
<1> DEFINE t == NewTopic(name, tid, 0)
           u == Completed(t, tid)
<1>2. /\ t \in ATopic(nums) /\ u \in ATopic(nums)
      /\ t.name = name /\ u.name = name /\ t.mid = 0 /\ u.mid = 0
      /\ t.id \in {0, tid} /\ u.id = t.id
  BY NewTopicType
<1>3. CreateTopic(topics, name, tid) \in {topics, Append(topics, t), Append(topics, u)}
  <2>1. CASE topics = <<>>
    <3>1. CreateTopic(topics, name, tid) = <<t>> /\ Append(topics, t) = <<t>>
      <4> HIDE DEF t
      <4> QED
        BY <2>1 DEF CreateTopic, t
    <3> QED
      BY <3>1
  <2> QED
    BY <2>1 DEF CreateTopic
<1> HIDE DEF t, u
<1>4. ASSUME NEW v \in {t, u}
      PROVE  LET n == Append(topics, v)
             IN /\ n \in Collections(nums) /\ Len(n) = Len(topics) + 1
                /\ n[Len(topics) + 1] = v
                /\ \A j \in 1 .. Len(topics) : n[j] = topics[j]
  BY <1>2, Appended
<1>5. CASE CreateTopic(topics, name, tid) = topics
  BY <1>1, <1>5
<1>6. ASSUME NEW v \in {t, u}, CreateTopic(topics, name, tid) = Append(topics, v)
      PROVE  LET n == CreateTopic(topics, name, tid)
             IN /\ n \in Collections(nums) /\ Len(n) \in {Len(topics), Len(topics) + 1}
                /\ \A j \in 1 .. Len(topics) : n[j] = topics[j]
                /\ \A j \in Len(topics) + 1 .. Len(n) :
                     n[j].name = name /\ n[j].id \in {0, tid} /\ n[j].mid = 0
  <2> DEFINE n == Append(topics, v)
  <2>1. /\ n \in Collections(nums) /\ Len(n) = Len(topics) + 1
        /\ n[Len(topics) + 1] = v
        /\ \A j \in 1 .. Len(topics) : n[j] = topics[j]
    BY <1>4
  <2>2. CreateTopic(topics, name, tid) = n
    BY <1>6
  <2>3. v.name = name /\ v.id \in {0, tid} /\ v.mid = 0
    BY <1>2
  <2> HIDE DEF n
  <2> QED
    BY <1>1, <2>1, <2>2, <2>3
<1> QED
  BY <1>3, <1>5, <1>6

LEMMA ListSet ==
  ASSUME ClientReady, cstate = "connected", NEW i \in 1 .. Len(ctopics),
         NEW t \in ATopic(0 .. MaxId), TopicTurn(t), ctopics' = [ctopics EXCEPT ![i] = t]
  PROVE  ListStep
<1> DEFINE nums == 0 .. MaxId
           n == [ctopics EXCEPT ![i] = t]
<1>1. ctopics \in Collections(nums) /\ t \in ATopic(nums)
  BY DEF ClientReady
<1> HIDE DEF nums
<1>2. /\ n \in Collections(nums) /\ Len(n) = Len(ctopics) /\ n[i] = t
      /\ \A j \in 1 .. Len(ctopics) : j # i => n[j] = ctopics[j]
  <2> DEFINE c == ctopics
  <2>1. c \in Collections(nums) /\ t \in ATopic(nums) /\ i \in 1 .. Len(c)
    BY <1>1
  <2> HIDE DEF c
  <2>2. LET q == [c EXCEPT ![i] = t] IN
          /\ q \in Collections(nums) /\ Len(q) = Len(c) /\ q[i] = t
          /\ \A j \in 1 .. Len(c) : j # i => q[j] = c[j]
    BY <2>1, TopicSet
  <2> QED
    BY <2>2 DEF c
<1>3. DOMAIN n = 1 .. Len(ctopics) /\ DOMAIN ctopics = 1 .. Len(ctopics)
  <2> HIDE DEF n
  <2>1. n \in Collections(nums) /\ Len(n) = Len(ctopics)
    BY <1>2
  <2>2. DOMAIN n = 1 .. Len(n)
    BY <2>1, CollectionLength
  <2>3. DOMAIN ctopics = 1 .. Len(ctopics)
    BY <1>1, CollectionLength
  <2> QED
    BY <2>1, <2>2, <2>3
<1>4. ctopics' = n
  OBVIOUS
<1> HIDE DEF n
<1>5. ASSUME NEW j \in DOMAIN n
      PROVE  TopicTurn(n[j])
  <2>1. CASE j = i
    BY <1>2, <2>1
  <2>2. CASE j # i
    <3>1. n[j] = ctopics[j] /\ j \in DOMAIN ctopics
      BY <1>2, <1>3, <2>2
    <3>2. TopicKept(n[j])
      BY <3>1 DEF TopicKept
    <3> QED
      BY <3>2 DEF TopicTurn
  <2> QED
    BY <2>1, <2>2
<1> QED
  BY <1>2, <1>4, <1>5 DEF ListStep, nums

(* The collection with one topic more, or as it was.                          *)
LEMMA ListAdded ==
  ASSUME ClientReady, cstate = "connected", NEW n, n \in Collections(0 .. MaxId),
         Len(n) \in {Len(ctopics), Len(ctopics) + 1},
         \A j \in 1 .. Len(ctopics) : n[j] = ctopics[j],
         \A j \in Len(ctopics) + 1 .. Len(n) : TopicTurn(n[j]),
         ctopics' = n
  PROVE  ListStep
<1>1. /\ DOMAIN n = 1 .. Len(n) /\ DOMAIN ctopics = 1 .. Len(ctopics) /\ Len(ctopics) \in Nat
      /\ Len(n) \in Nat
  BY CollectionLength DEF ClientReady
<1>2. ASSUME NEW j \in DOMAIN n
      PROVE  TopicTurn(n[j])
  <2>1. CASE j \in 1 .. Len(ctopics)
    <3>1. n[j] = ctopics[j] /\ j \in DOMAIN ctopics
      BY <1>1, <2>1
    <3>2. TopicKept(n[j])
      BY <3>1 DEF TopicKept
    <3> QED
      BY <3>2 DEF TopicTurn
  <2>2. CASE j \in Len(ctopics) + 1 .. Len(n)
    BY <2>2
  <2>3. j \in 1 .. Len(ctopics) \/ j \in Len(ctopics) + 1 .. Len(n)
    <3> DEFINE a == Len(ctopics)
               b == Len(n)
    <3>1. a \in Nat /\ b \in Nat /\ j \in 1 .. b
      BY <1>1
    <3> HIDE DEF a, b
    <3>2. j \in 1 .. a \/ j \in a + 1 .. b
      BY <3>1
    <3> QED
      BY <3>2 DEF a, b
  <2> QED
    BY <2>1, <2>2, <2>3
<1> QED
  BY <1>2 DEF ListStep

LEMMA ListRegisters ==
  ASSUME ClientReady, Register \/ Subscribe
  PROVE  ListStep
<1> DEFINE nums == 0 .. MaxId
           mid == OwnId
<1>1. mid \in nums
  BY NextIdType DEF ClientReady, OwnId
<1>2. PICK name \in TopicNames :
        LET topics == RegTopic(ctopics, name, mid)
            i == ByName(topics, name)
        IN /\ cstate = "connected"
           /\ \/ ctopics' = topics
              \/ topics[i].id > 0 /\ ctopics' = [topics EXCEPT ![i].mid = mid]
  <2>1. CASE Register
    <3>1. PICK name \in Names :
            LET topics == RegTopic(ctopics, name, mid)
                i == ByName(topics, name)
            IN ctopics' \in {topics, [topics EXCEPT ![i].mid = mid]}
                 /\ (ctopics' = topics \/ topics[i].id > 0)
      BY <2>1 DEF Register, OwnId
    <3>2. name \in TopicNames /\ cstate = "connected"
      BY <2>1 DEF Register, TopicNames
    <3> QED
      BY <3>1, <3>2
  <2>2. CASE Subscribe
    BY <2>2 DEF Subscribe, OwnId
  <2> QED
    BY <2>1, <2>2
<1>0. cring'.last = OwnId
  <2>1. CanAdd(cring) /\ IsRing(cring)
    BY DEF Register, Subscribe, ClientReady
  <2>2. ASSUME NEW activity
        PROVE  LET a == Add(cring, activity)
               IN a.last = OwnId /\ [a EXCEPT !.place[AddedAt(cring)] = Reset(@)].last = OwnId
    BY <2>1, PlainAdded DEF OwnId, IsRing
  <2>3. ASSUME NEW activity, NEW type, NEW tid, NEW n, NEW data, NEW qos, NEW oneshot
        PROVE  AddAbout(cring, activity, type, tid, n, data, qos, oneshot).last = OwnId
    BY <2>1, FreshAdded DEF OwnId
  <2>4. CASE Register
    <3>1. \/ cring' = [Add(cring, "registering") EXCEPT !.place[AddedAt(cring)] = Reset(@)]
          \/ \E n : cring' = AddAbout(cring, "registering", "REGISTER", 0, n, 0, KeptQos(cring),
                                     FALSE)
      BY <2>4 DEF Register
    <3> QED
      BY <2>2, <2>3, <3>1
  <2>5. CASE Subscribe
    <3>1. \/ cring' = Add(cring, "subscribing")
          \/ \E n, qos : cring' = AddAbout(cring, "subscribing", "SUBSCRIBE", 0, n, 0, qos, qos = 0)
      BY <2>5 DEF Subscribe
    <3> QED
      BY <2>2, <2>3, <3>1
  <2> QED
    BY <2>4, <2>5
<1> DEFINE topics == RegTopic(ctopics, name, mid)
           i == ByName(topics, name)
<1> HIDE DEF mid, nums
<1>3. ctopics \in Collections(nums) /\ Len(ctopics) \in Nat
  BY CollectionLength DEF ClientReady, nums
<1>4. /\ topics \in Collections(nums) /\ i \in 1 .. Len(topics) /\ topics[i].name = name
      /\ Len(topics) \in {Len(ctopics), Len(ctopics) + 1}
      /\ \A j \in 1 .. Len(ctopics) : topics[j] = ctopics[j]
      /\ \A j \in Len(ctopics) + 1 .. Len(topics) :
           topics[j].name = name /\ topics[j].id = 0 /\ topics[j].mid = mid
  BY <1>1, <1>3, RegTopicAdds
<1>5. cstate = "connected" /\ (ctopics' = topics \/ (topics[i].id > 0 /\ ctopics' = [topics EXCEPT ![i].mid = mid]))
  BY <1>2
<1> HIDE DEF topics, i
<1>6. ASSUME NEW j \in Len(ctopics) + 1 .. Len(topics)
      PROVE  TopicTurn(topics[j])
  BY <1>0, <1>4, <1>6 DEF TopicTurn, TopicAsked, NewlyAsked, Awaits, mid
<1>7. CASE ctopics' = topics
  BY <1>4, <1>5, <1>6, <1>7, ListAdded DEF nums
<1>8. CASE topics[i].id > 0 /\ ctopics' = [topics EXCEPT ![i].mid = mid]
  <2>1. i \in 1 .. Len(ctopics) /\ topics[i] = ctopics[i]
    BY <1>3, <1>4, <1>8
  <2>2. topics[i] \in ATopic(nums)
    BY <1>4, CollectionLength
  <2> DEFINE t == [ctopics[i] EXCEPT !.mid = mid]
  <2>3. /\ t \in ATopic(nums) /\ t.name = ctopics[i].name /\ t.id = ctopics[i].id /\ t.mid = mid
    BY <1>1, <2>1, <2>2 DEF ATopic
  <2>4. ctopics' = [topics EXCEPT ![i] = t]
    BY <1>4, <1>8, <2>1
  <2> HIDE DEF t
  <2>5. DOMAIN ctopics = 1 .. Len(ctopics)
    BY <1>3, CollectionLength
  <2>6. TopicTurn(t)
    BY <1>0, <2>1, <2>3, <2>5 DEF TopicTurn, TopicKept, NewlyAsked, Awaits, mid
  <2> DEFINE n == [topics EXCEPT ![i] = t]
  <2>7. /\ n \in Collections(nums) /\ Len(n) = Len(topics) /\ n[i] = t
        /\ \A j \in 1 .. Len(topics) : j # i => n[j] = topics[j]
    BY <1>4, <2>3, TopicSet
  <2> HIDE DEF n
  <2>8. DOMAIN n = 1 .. Len(topics)
    BY <2>7, CollectionLength
  <2>9. ASSUME NEW j \in DOMAIN n
        PROVE  TopicTurn(n[j])
    <3>1. CASE j = i
      BY <2>6, <2>7, <3>1
    <3>2. CASE j \in 1 .. Len(ctopics) /\ j # i
      <4>1. n[j] = ctopics[j] /\ j \in DOMAIN ctopics
        BY <1>4, <2>5, <2>7, <2>8, <3>2
      <4>2. TopicKept(n[j])
        BY <4>1 DEF TopicKept
      <4> QED
        BY <4>2 DEF TopicTurn
    <3>3. CASE j \in Len(ctopics) + 1 .. Len(topics)
      <4>1. n[j] = topics[j]
        BY <1>3, <2>1, <2>7, <2>8, <3>3
      <4> QED
        BY <1>6, <3>3, <4>1
    <3> QED
      BY <1>3, <2>8, <3>1, <3>2, <3>3
  <2> QED
    BY <1>5, <2>4, <2>7, <2>9 DEF ListStep, nums, n
<1> QED
  BY <1>5, <1>7, <1>8

LEMMA ListReceives ==
  ASSUME ClientReady, ReceiveRegister \/ ReceiveRegack \/ ReceiveSuback
  PROVE  ListStep
<1>1. ctopics \in Collections(0 .. MaxId) /\ Len(ctopics) \in Nat /\ DOMAIN ctopics = 1 .. Len(ctopics)
      /\ \A j \in 1 .. Len(ctopics) : ctopics[j] \in ATopic(0 .. MaxId)
  BY CollectionLength DEF ClientReady
<1>2. CASE ReceiveRegister
  <2>1. PICK x \in ToClient("REGISTER") : ctopics' = CreateTopic(ctopics, x.name, x.tid)
    BY <1>2 DEF ReceiveRegister
  <2>2. /\ x \in DOMAIN toClient /\ x.type = "REGISTER" /\ x.name \in TopicNames /\ x.tid \in TopicIds
        /\ cstate = "connected"
    BY <1>2 DEF ReceiveRegister, ToClient, BagToSet, ClientReady
  <2> DEFINE nums == 0 .. MaxId
             n == CreateTopic(ctopics, x.name, x.tid)
  <2>3. 0 \in nums /\ ctopics \in Collections(nums)
    BY <1>1
  <2> HIDE DEF nums
  <2>4. /\ n \in Collections(nums) /\ Len(n) \in {Len(ctopics), Len(ctopics) + 1}
        /\ \A j \in 1 .. Len(ctopics) : n[j] = ctopics[j]
        /\ \A j \in Len(ctopics) + 1 .. Len(n) :
             n[j].name = x.name /\ n[j].id \in {0, x.tid} /\ n[j].mid = 0
    BY <2>2, <2>3, CreateTopicAdds
  <2>5. ctopics' = n
    BY <2>1
  <2> HIDE DEF n
  <2>6. ASSUME NEW j \in Len(ctopics) + 1 .. Len(n)
        PROVE  TopicTurn(n[j])
    BY <2>2, <2>4, <2>6 DEF TopicTurn, TopicTold, Awaits
  <2> QED
    BY <2>2, <2>4, <2>5, <2>6, ListAdded DEF nums
<1>3. CASE ReceiveRegack
  <2>1. PICK x \in ToClient("REGACK") : ctopics' = ctopics \/ ctopics' = CompleteTopic(ctopics, x.id, x.tid)
    BY <1>3 DEF ReceiveRegack
  <2>2. /\ x \in DOMAIN toClient /\ x.type = "REGACK" /\ x.tid \in TopicIds /\ cstate = "connected"
    BY <1>3 DEF ReceiveRegack, ToClient, BagToSet, ClientReady
  <2> DEFINE i == Incomplete(ctopics, x.id)
             t == Completed(ctopics[i], x.tid)
  <2>3. CASE ctopics' = CompleteTopic(ctopics, x.id, x.tid) /\ i # 0
    <3>1. i \in 1 .. Len(ctopics) /\ Awaits(ctopics[i], x.id)
      BY <1>1, <2>3, IncompleteFound DEF Awaits
    <3>2. ctopics' = [ctopics EXCEPT ![i] = t]
      BY <1>1, <2>3, <3>1 DEF CompleteTopic
    <3> HIDE DEF i
    <3> DEFINE nums == 0 .. MaxId
               u == ctopics[i]
    <3>3. u \in ATopic(nums)
      BY <1>1, <3>1
    <3> HIDE DEF nums, u
    <3>4. LET n == Completed(u, x.tid) IN
            /\ n \in ATopic(nums) /\ n.name = u.name /\ n.complete
            /\ n.id = IF u.name \in Filters THEN u.id ELSE x.tid
      BY <2>2, <3>3, CompletedType
    <3>5. t \in ATopic(0 .. MaxId) /\ t.name = ctopics[i].name /\ t.complete /\ t.id \in {ctopics[i].id, x.tid}
      BY <3>4 DEF u, nums
    <3> HIDE DEF t
    <3>6. TopicTurn(t)
      BY <1>1, <2>2, <3>1, <3>5 DEF TopicTurn, TopicConfirmed
    <3> QED
      BY <2>2, <3>1, <3>2, <3>5, <3>6, ListSet
  <2> QED
    BY <2>1, <2>3, ListSame DEF CompleteTopic
<1>4. CASE ReceiveSuback
  <2>1. PICK x \in ToClient("SUBACK") : ctopics' = ctopics \/ ctopics' = Subscribed(x)
    BY <1>4 DEF ReceiveSuback
  <2>2. /\ x \in DOMAIN toClient /\ x.type = "SUBACK" /\ x.tid \in TopicIds /\ cstate = "connected"
        /\ x.id \in 0 .. MaxId
    BY <1>4 DEF ReceiveSuback, ToClient, BagToSet, ClientReady
  <2> DEFINE known == ById(ctopics, x.tid)
             i == IF known # 0 THEN known ELSE Incomplete(ctopics, x.id)
             u == ctopics[i]
             w == [u EXCEPT !.mid = x.id]
             v == IF u.complete THEN u ELSE Completed(w, x.tid)
             t == [v EXCEPT !.subscribed = TRUE]
  <2>3. CASE ctopics' = Subscribed(x) /\ ctopics' # ctopics
    <3>1. x.tid # 0 /\ i # 0
      BY <2>3 DEF Subscribed
    <3>2. i \in 1 .. Len(ctopics) /\ \/ ctopics[i].id = x.tid
                                     \/ Awaits(ctopics[i], x.id)
      <4>1. CASE known # 0
        BY <1>1, <4>1, ByIdFound
      <4>2. CASE known = 0
        <5>1. i = Incomplete(ctopics, x.id)
          BY <4>2
        <5> HIDE DEF i
        <5> QED
          BY <1>1, <3>1, <5>1, IncompleteFound DEF Awaits
      <4> QED
        BY <4>1, <4>2
    <3>3. ctopics' = [ctopics EXCEPT ![i] = t]
      <4>1. ctopics' = [ctopics EXCEPT ![i] =
             [IF @.complete THEN @ ELSE Completed([@ EXCEPT !.mid = x.id], x.tid)
                EXCEPT !.subscribed = TRUE]]
        BY <2>3, <3>1 DEF Subscribed
      <4> HIDE DEF i
      <4> QED
        BY <1>1, <3>2, <4>1
    <3> HIDE DEF i
    <3> DEFINE nums == 0 .. MaxId
    <3>4. u \in ATopic(nums) /\ x.id \in nums
      BY <1>1, <2>2, <3>2
    <3> HIDE DEF u, nums
    <3>5. w \in ATopic(nums) /\ w.name = u.name /\ w.id = u.id
      BY <3>4 DEF ATopic
    <3> HIDE DEF w
    <3>6. LET n == Completed(w, x.tid) IN
            /\ n \in ATopic(nums) /\ n.name = w.name /\ n.complete
            /\ n.id = IF w.name \in Filters THEN w.id ELSE x.tid
      BY <2>2, <3>5, CompletedType
    <3>7. v \in ATopic(nums) /\ v.name = u.name /\ v.complete
          /\ v.id \in {u.id, x.tid} /\ (u.complete => v = u)
      <4>1. CASE u.complete
        BY <3>4, <4>1
      <4>2. CASE ~u.complete
        BY <3>5, <3>6, <4>2
      <4> QED
        BY <4>1, <4>2
    <3> HIDE DEF v
    <3>8. t \in ATopic(nums) /\ t.name = v.name /\ t.complete /\ t.id = v.id
      BY <3>7 DEF ATopic
    <3> HIDE DEF t
    <3>9. TopicTurn(t)
      <4>1. \A k : ~Awaits(t, k)
        BY <3>8 DEF Awaits
      <4>2. i \in DOMAIN ctopics
        BY <1>1, <3>2
      <4>3. CASE ctopics[i].id = x.tid \/ u.complete
        <5>1. t.id = ctopics[i].id
          BY <3>7, <3>8, <4>3 DEF u
        <5> QED
          BY <3>7, <3>8, <4>1, <4>2, <5>1 DEF TopicTurn, TopicKept, u
      <4>4. CASE Awaits(ctopics[i], x.id)
        BY <2>2, <3>7, <3>8, <4>2, <4>4 DEF TopicTurn, TopicConfirmed, u
      <4> QED
        BY <3>2, <4>3, <4>4
    <3> QED
      BY <2>2, <3>2, <3>3, <3>8, <3>9, ListSet DEF nums
  <2> QED
    BY <2>1, <2>3, ListSame
<1> QED
  BY <1>2, <1>3, <1>4

LEMMA ListSteps ==
  ASSUME ClientReady, ClientNext \/ ClientTopicsNext
  PROVE  ListStep
<1>1. CASE ClientNext
  <2>1. ctopics' = <<>> \/ ctopics' = ctopics
    BY <1>1 DEF ClientNext, Connect, Disconnect, Publish, Searchgw, ClientRestart, ClientManage,
                ClientLost, ClientWrite, ClientResend, ClientGiveUp, ClientIdle, ClientHandler,
                ReceiveConnack, ReceiveWilltopicreq, ReceiveWillmsgreq, ReceiveClientDisconnect,
                ReceiveGwinfo, ReceivePuback, ReceivePubrec, ReceivePubcomp
  <2> QED
    BY <2>1, ListSame, ListCleared
<1>2. CASE ReceiveDelivery \/ ReceiveDeliveryPubrel
           \/ Ignored({"REGISTER", "REGACK", "SUBACK", "PUBLISH", "PUBREL"})
  <2>1. ctopics' = ctopics
    BY <1>2 DEF ReceiveDelivery, ReceiveDeliveryPubrel, Ignored
  <2> QED
    BY <2>1, ListSame
<1> QED
  BY <1>1, <1>2, ListRegisters, ListReceives DEF ClientTopicsNext, ClientTopicsHandler

(* What a step of the client makes of a message of its ring ...               *)
Became(n, m) ==
  \/ Aged(n, m)
  \/ n = Reset(m)
  \/ n = Blank
  \/ n = ReplaceWith(m, "WILLTOPIC", cwill, "willtopic")
  \/ n = ReplaceWith(m, "WILLMSG", cwill, "willmessage")
  \/ n = ReplaceWith(m, "PUBREL", 0, "publishing")

(* ... and the messages it adds. Of the topics, those that wait for the new   *)
(* message have the name it asks for.                                         *)
Recording(x) ==
  [active |-> TRUE, type |-> "PUBREC", data |-> 0, tid |-> 0, name |-> "",
   id |-> x.id, ext |-> TRUE, mos |-> 0, qos |-> 2, activity |-> "publishing",
   sent |-> FALSE, attempts |-> 0, oneshot |-> FALSE]
AllAsk(name) ==
  \A i \in DOMAIN ctopics' :
    Awaits(ctopics'[i], OwnId) =>
      \/ ctopics'[i].name = name
      \/ \E j \in DOMAIN ctopics : Awaits(ctopics[j], OwnId)
AddedRequest(n) ==
  \E name \in TopicNames, qos \in 0 .. 2, oneshot \in BOOLEAN :
    /\ \/ n = Fresh(OwnId, "registering", "REGISTER", 0, name, 0, qos, oneshot)
       \/ n = Fresh(OwnId, "subscribing", "SUBSCRIBE", 0, name, 0, qos, oneshot)
    /\ AllAsk(name)
AddedMessage(n) ==
  \/ AddedRequest(n)
  \/ \E activity \in {"willtopic", "none"}, flags \in Flags, qos \in 0 .. 2 :
       n = Fresh(OwnId, activity, "CONNECT", 0, "", flags, qos, FALSE)
  \/ \E sleep \in {0, 1}, qos \in 0 .. 2 :
       n = Fresh(OwnId, "disconnecting", "DISCONNECT", 0, "", sleep, qos, FALSE)
  \/ \E qos \in 0 .. 2 : n = Fresh(OwnId, "searching", "SEARCHGW", 0, "", 0, qos, FALSE)
  \/ \E tid \in TopicIds, qos \in 0 .. 2, oneshot \in BOOLEAN :
       n = Fresh(OwnId, "publishing", "PUBLISH", tid, NoName, made["restart"], qos, oneshot)
  \/ \E qos \in 0 .. 2 : n = Fresh(OwnId, "subscribing", "none", 0, "", 0, qos, FALSE)
  \/ \E x \in DOMAIN toClient : x.type = "PUBLISH" /\ x.data \in Given' /\ n = Recording(x)

OwnRingStep ==
  /\ IsRing(cring')
  /\ cring'.last \in {cring.last, OwnId} \/ (cring'.last = 0 /\ Count("restart"))
  /\ \A i \in Places :
       \/ Became(cring'.place[i], cring.place[i])
       \/ AddedMessage(cring'.place[i]) /\ cring'.last = OwnId

LEMMA OwnAged ==
  ASSUME AgedRing(cring', cring)
  PROVE  OwnRingStep
BY DEF AgedRing, OwnRingStep, Became

LEMMA OwnSame ==
  ASSUME ClientReady, cring' = cring
  PROVE  OwnRingStep
BY AgedSame, OwnAged DEF ClientReady

LEMMA OwnCleared ==
  ASSUME cring' = Cleared(cring) \/ (cring' = EmptyRing /\ Count("restart"))
  PROVE  OwnRingStep
<1>1. EmptyRing.last = 0
  BY DEF EmptyRing
<1> QED
  BY <1>1, ClearedRing, EmptyRingFields DEF OwnRingStep, Became

LEMMA OwnSet ==
  ASSUME ClientReady, NEW i \in Places, NEW n, IsMessage(n), Became(n, cring.place[i]),
         NEW r, AgedRing(r, cring), r.place = cring.place, cring' = [r EXCEPT !.place[i] = n]
  PROVE  OwnRingStep
<1>1. /\ IsRing(cring') /\ cring'.last = r.last /\ cring'.place[i] = n
      /\ \A j \in Places \ {i} : cring'.place[j] = r.place[j]
  BY PlaceSet DEF AgedRing
<1>2. \A j \in Places : Became(cring'.place[j], cring.place[j])
  BY <1>1 DEF AgedRing, Became
<1> QED
  BY <1>1, <1>2 DEF OwnRingStep, AgedRing

LEMMA OwnKeptQos ==
  ASSUME ClientReady, CanAdd(cring)
  PROVE  KeptQos(cring) \in 0 .. 2
<1>1. AddedAt(cring) \in Places
  BY PlainAdded DEF ClientReady
<1> QED
  BY <1>1 DEF KeptQos, ClientReady

(* add_message() and set_message(), on the ring or on the ring cleared.       *)
LEMMA OwnAdded ==
  ASSUME NEW r, IsRing(r), r.last = cring.last, CanAdd(r),
         \A i \in Places : Became(r.place[i], cring.place[i]),
         NEW activity, NEW type, NEW tid, NEW name, NEW data, NEW qos, NEW oneshot,
         cring' = AddAbout(r, activity, type, tid, name, data, qos, oneshot),
         AddedMessage(Fresh(OwnId, activity, type, tid, name, data, qos, oneshot))
  PROVE  OwnRingStep
<1> DEFINE i == AddedAt(r)
           n == Fresh(OwnId, activity, type, tid, name, data, qos, oneshot)
<1>1. /\ IsRing(cring') /\ cring'.last = OwnId /\ i \in Places
      /\ cring'.place[i] = n
      /\ \A j \in Places \ {i} : cring'.place[j] = r.place[j]
  BY FreshAdded DEF OwnId
<1> HIDE DEF n, i
<1>2. AddedMessage(cring'.place[i])
  BY <1>1 DEF n
<1>3. \A j \in Places : Became(cring'.place[j], cring.place[j]) \/ AddedMessage(cring'.place[j])
  BY <1>1, <1>2
<1> QED
  BY <1>1, <1>3 DEF OwnRingStep

(* add_message() and a change of what it made.                                *)
LEMMA OwnAddedSet ==
  ASSUME ClientReady, CanAdd(cring), NEW activity, NEW n, IsMessage(n),
         AddedMessage(n) \/ n = Reset(cring.place[AddedAt(cring)]),
         cring' = [Add(cring, activity) EXCEPT !.place[AddedAt(cring)] = n]
  PROVE  OwnRingStep
<1> DEFINE i == AddedAt(cring)
           a == Add(cring, activity)
<1>1. /\ IsRing(a) /\ a.last = OwnId /\ i \in Places
      /\ \A j \in Places \ {i} : a.place[j] = cring.place[j]
  BY PlainAdded DEF ClientReady, OwnId
<1> HIDE DEF a, i
<1>2. cring' = [a EXCEPT !.place[i] = n]
  BY DEF a, i
<1>3. LET q == [a EXCEPT !.place[i] = n]
      IN /\ IsRing(q) /\ q.last = a.last /\ q.place[i] = n
         /\ \A j \in Places \ {i} : q.place[j] = a.place[j]
  BY <1>1, PlaceSet
<1>4. /\ IsRing(cring') /\ cring'.last = a.last /\ cring'.place[i] = n
      /\ \A j \in Places \ {i} : cring'.place[j] = a.place[j]
  BY <1>2, <1>3
<1>5. \A j \in Places \ {i} : Became(cring'.place[j], cring.place[j])
  BY <1>1, <1>4, AgedSelf DEF ClientReady, IsRing, Became
<1>6. AddedMessage(cring'.place[i]) \/ Became(cring'.place[i], cring.place[i])
  BY <1>4 DEF Became, i
<1> QED
  BY <1>1, <1>4, <1>5, <1>6 DEF OwnRingStep

LEMMA OwnManages ==
  ASSUME ClientReady, ClientManage
  PROVE  OwnRingStep
<1> DEFINE i == Current(cring)
           m == cring.place[i]
<1>1. ASSUME Active(cring) # {}
      PROVE  /\ AgedRing([Looked(cring) EXCEPT !.place[i] = m], cring)
             /\ HasContent(m) => AgedRing([Looked(cring) EXCEPT !.place[i] = Sending(m)], cring)
             /\ ~HasFailed(Expired(m)) =>
                  AgedRing([Looked(cring) EXCEPT !.place[i] = Expired(m)], cring)
             /\ AgedRing([Looked(cring) EXCEPT !.place[i] = [Expired(m) EXCEPT !.active = FALSE]],
                         cring)
  BY <1>1, AgedCurrent DEF ClientReady
<1>2. CASE ClientLost
  BY <1>2, OwnCleared DEF ClientLost
<1>3. CASE ClientWrite(TRUE) \/ ClientWrite(FALSE)
  <2>1. Active(cring) # {} /\ \/ cring' = [Looked(cring) EXCEPT !.place[i] = m]
                              \/ HasContent(m) /\ cring' = [Looked(cring) EXCEPT !.place[i] = Sending(m)]
    BY <1>3 DEF ClientWrite
  <2> HIDE DEF i, m
  <2> QED
    BY <1>1, <2>1, OwnAged
<1>4. CASE ClientResend
  <2>1. /\ Active(cring) # {} /\ ~HasFailed(Expired(m))
        /\ cring' = [Looked(cring) EXCEPT !.place[i] = Expired(m)]
    BY <1>4 DEF ClientResend
  <2> HIDE DEF i, m
  <2> QED
    BY <1>1, <2>1, OwnAged
<1>5. CASE ClientGiveUp
  <2>1. Active(cring) # {} /\
        cring' = [Looked(cring) EXCEPT !.place[i] = [Expired(m) EXCEPT !.active = FALSE]]
    BY <1>5 DEF ClientGiveUp
  <2> HIDE DEF i, m
  <2> QED
    BY <1>1, <2>1, OwnAged
<1>6. CASE ClientIdle
  <2>1. AgedRing(Looked(cring), cring) /\ cring' = Looked(cring)
    BY <1>6, AgedSame DEF ClientReady, ClientIdle
  <2> QED
    BY <2>1, OwnAged
<1> QED
  BY <1>2, <1>3, <1>4, <1>5, <1>6 DEF ClientManage

LEMMA OwnCalls ==
  ASSUME ClientReady, Connect \/ Disconnect \/ Publish \/ Searchgw \/ ClientRestart
  PROVE  OwnRingStep
<1>1. CASE Connect
  <2> DEFINE r == Cleared(cring)
  <2>1. PICK flags, a, t, z, e, f, q :
          /\ flags \in Flags /\ a \in {"willtopic", "none"}
          /\ cring' = AddAbout(r, a, t, z, e, flags, q, f)
          /\ t = "CONNECT" /\ z = 0 /\ e = "" /\ f = FALSE /\ q = KeptQos(r)
    BY <1>1 DEF Connect, AddWith
  <2>2. /\ IsRing(r) /\ r.last = cring.last /\ Active(r) = {}
        /\ \A j \in Places : r.place[j] = Reset(cring.place[j])
    BY ClearedRing
  <2>3. CanAdd(r)
    BY <2>2 DEF CanAdd, Places
  <2>4. \A j \in Places : Became(r.place[j], cring.place[j])
    BY <2>2 DEF Became
  <2> HIDE DEF r
  <2>5. q \in 0 .. 2
    <3>1. AddedAt(r) \in Places
      BY <2>2, <2>3, PlainAdded
    <3>2. q = r.place[AddedAt(r)].qos
      BY <2>1, Zenon DEF KeptQos
    <3>3. r.place[AddedAt(r)].qos = cring.place[AddedAt(r)].qos
      BY <2>2, <3>1, ResetFields
    <3>4. cring.place[AddedAt(r)].qos \in 0 .. 2
      BY <3>1 DEF ClientReady
    <3> QED
      BY <3>2, <3>3, <3>4
  <2>6. AddedMessage(Fresh(OwnId, a, t, z, e, flags, q, f))
    BY <2>1, <2>5 DEF AddedMessage
  <2> QED
    BY <2>1, <2>2, <2>3, <2>4, <2>6, OwnAdded
<1>2. \A j \in Places : Became(cring.place[j], cring.place[j])
  BY AgedSelf DEF Became, ClientReady, IsRing
<1>3. CASE Disconnect
  <2>1. PICK sleep \in {0, 1} :
          cring' = AddAbout(cring, "disconnecting", "DISCONNECT", 0, "", sleep, KeptQos(cring),
                            FALSE)
    BY <1>3, Zenon DEF Disconnect, AddWith
  <2>2. PICK a, t, z, e, f, q :
          /\ cring' = AddAbout(cring, a, t, z, e, sleep, q, f)
          /\ a = "disconnecting" /\ t = "DISCONNECT" /\ z = 0 /\ e = "" /\ f = FALSE
          /\ q = KeptQos(cring)
    BY <2>1
  <2>4. CanAdd(cring) /\ IsRing(cring)
    BY <1>3 DEF Disconnect, ClientReady
  <2>5. q \in 0 .. 2
    BY <2>2, <2>4, OwnKeptQos, Zenon
  <2>3. AddedMessage(Fresh(OwnId, a, t, z, e, sleep, q, f))
    BY <2>1, <2>2, <2>5 DEF AddedMessage
  <2> QED
    BY <1>2, <2>2, <2>3, <2>4, OwnAdded
<1>4. CASE Publish
  <2>0. PICK qos \in Qualities, tid \in Subjects :
          cring' = AddAbout(cring, "publishing", "PUBLISH", tid, NoName, made["restart"], qos, qos = 0)
    BY <1>4, Zenon DEF Publish
  <2>1. PICK a, t, e, d, f :
          /\ qos \in Qualities /\ tid \in Subjects
          /\ cring' = AddAbout(cring, a, t, tid, e, d, qos, f)
          /\ a = "publishing" /\ t = "PUBLISH" /\ e = NoName /\ d = made["restart"] /\ f = (qos = 0)
    BY <2>0, Zenon
  <2>2. tid \in TopicIds
    <3>1. DOMAIN ctopics = 1 .. Len(ctopics) /\ \A j \in 1 .. Len(ctopics) : ctopics[j] \in ATopic(0 .. MaxId)
      BY CollectionLength DEF ClientReady
    <3> QED
      BY <3>1 DEF Subjects, TopicIds, ATopic
  <2>3. qos \in 0 .. 2 /\ f \in BOOLEAN
    BY <2>1, QualitiesAssumption
  <2>4. AddedMessage(Fresh(OwnId, a, t, tid, e, d, qos, f))
    BY <2>1, <2>2, <2>3 DEF AddedMessage
  <2>5. CanAdd(cring) /\ IsRing(cring)
    BY <1>4 DEF Publish, ClientReady
  <2> QED
    BY <1>2, <2>1, <2>4, <2>5, OwnAdded
<1>5. CASE Searchgw
  <2>1. PICK a, t, z, e, f, q :
          /\ cring' = AddAbout(cring, a, t, z, e, z, q, f)
          /\ a = "searching" /\ t = "SEARCHGW" /\ z = 0 /\ e = "" /\ f = FALSE
          /\ q = KeptQos(cring)
    BY <1>5 DEF Searchgw, AddWith
  <2>3. CanAdd(cring) /\ IsRing(cring)
    BY <1>5 DEF Searchgw, ClientReady
  <2>4. q \in 0 .. 2
    BY <2>1, <2>3, OwnKeptQos, Zenon
  <2>2. AddedMessage(Fresh(OwnId, a, t, z, e, z, q, f))
    BY <2>1, <2>4 DEF AddedMessage
  <2> QED
    BY <1>2, <2>1, <2>2, <2>3, OwnAdded
<1>6. CASE ClientRestart
  BY <1>6, OwnCleared DEF ClientRestart
<1> QED
  BY <1>1, <1>3, <1>4, <1>5, <1>6

LEMMA OwnHandles ==
  ASSUME ClientReady, ClientHandler
  PROVE  OwnRingStep
<1> DEFINE i == Current(cring)
           m == cring.place[i]
<1>1. /\ AgedRing(Looked(cring), cring) /\ Looked(cring).place = cring.place
      /\ AgedRing(cring, cring)
      /\ Active(cring) # {} => i \in Places /\ IsMessage(m)
  BY AgedSame, LookedRing, CurrentActive DEF ClientReady, IsRing
<1>2. CASE ReceiveConnack \/ ReceiveClientDisconnect
  <2>1. cring' \in {cring, Looked(cring), Cleared(cring)}
    BY <1>2 DEF ReceiveConnack, ReceiveClientDisconnect, NoActiveMessage
  <2> QED
    BY <1>1, <2>1, OwnSame, OwnAged, OwnCleared
<1>3. CASE ReceiveWilltopicreq \/ ReceiveWillmsgreq
  <2>1. PICK type \in {"WILLTOPIC", "WILLMSG"}, activity \in {"willtopic", "willmessage"} :
          /\ type = "WILLTOPIC" <=> activity = "willtopic"
          /\ \/ cring' \in {cring, Looked(cring)}
             \/ /\ Active(cring) # {}
                /\ cring' = [Looked(cring) EXCEPT
                               !.place[i] = ReplaceWith(@, type, cwill, activity)]
    BY <1>3 DEF ReceiveWilltopicreq, ReceiveWillmsgreq, AnswerWith, NoActiveMessage
  <2> DEFINE n == ReplaceWith(m, type, cwill, activity)
  <2>2. CASE /\ Active(cring) # {}
             /\ cring' = [Looked(cring) EXCEPT !.place[i] = ReplaceWith(@, type, cwill, activity)]
    <3>1. cring' = [Looked(cring) EXCEPT !.place[i] = n]
      BY <1>1, <2>2 DEF IsRing, AgedRing
    <3>2. IsMessage(n)
      BY <1>1, <2>2, ReplaceFields
    <3>3. Became(n, m)
      BY <2>1 DEF Became
    <3> HIDE DEF n, i
    <3> QED
      BY <1>1, <2>2, <3>1, <3>2, <3>3, OwnSet
  <2> QED
    BY <1>1, <2>1, <2>2, OwnSame, OwnAged
<1>4. CASE ReceiveGwinfo
  <2>1. \/ cring' = Looked(cring)
        \/ Active(cring) # {} /\ cring' = Deactivate(Looked(cring), i)
    BY <1>4 DEF ReceiveGwinfo
  <2> QED
    BY <1>1, <2>1, AgedLooked, OwnAged DEF ClientReady
<1>5. CASE ReceivePuback \/ ReceivePubcomp
  <2>1. \E p : \/ cring' = cring
               \/ /\ Matches(cring, p.id, FALSE) # {}
                  /\ cring' = Deactivate(cring, Found(cring, p.id, FALSE))
    BY <1>5 DEF ReceivePuback, ReceivePubcomp, FoundQos2
  <2> QED
    BY <2>1, FoundOwn, AgedDeactivate, OwnAged, OwnSame DEF ClientReady
<1>6. CASE ReceivePubrec
  <2>1. PICK p : \/ cring' = cring
                 \/ /\ Matches(cring, p.id, FALSE) # {}
                    /\ cring' = [cring EXCEPT !.place[Found(cring, p.id, FALSE)] =
                                   ReplaceWith(@, "PUBREL", 0, "publishing")]
    BY <1>6 DEF ReceivePubrec, FoundQos2
  <2> DEFINE j == Found(cring, p.id, FALSE)
             n == ReplaceWith(cring.place[j], "PUBREL", 0, "publishing")
  <2>2. CASE /\ Matches(cring, p.id, FALSE) # {}
             /\ cring' = [cring EXCEPT !.place[j] = ReplaceWith(@, "PUBREL", 0, "publishing")]
    <3>1. j \in Places /\ IsMessage(cring.place[j])
      BY <2>2, FoundOwn DEF ClientReady, IsRing
    <3>2. cring' = [cring EXCEPT !.place[j] = n]
      BY <2>2, <3>1 DEF ClientReady, IsRing
    <3>3. IsMessage(n)
      BY <3>1, ReplaceFields
    <3>4. Became(n, cring.place[j])
      BY DEF Became
    <3> HIDE DEF n, j
    <3> QED
      BY <1>1, <3>1, <3>2, <3>3, <3>4, OwnSet
  <2> QED
    BY <2>1, <2>2, OwnSame
<1> QED
  BY <1>2, <1>3, <1>4, <1>5, <1>6 DEF ClientHandler

(* Of the topics register_topic() and subscribe() leave, those that wait for  *)
(* the new message asked for it.                                              *)
LEMMA RegTopicAsks ==
  ASSUME ClientReady, NEW name \in TopicNames,
         LET topics == RegTopic(ctopics, name, OwnId)
             i == ByName(topics, name)
         IN ctopics' = topics \/ ctopics' = [topics EXCEPT ![i].mid = OwnId]
  PROVE  AllAsk(name)
<1> DEFINE nums == 0 .. MaxId
           mid == OwnId
           topics == RegTopic(ctopics, name, mid)
           i == ByName(topics, name)
<1>1. mid \in nums
  BY NextIdType DEF ClientReady, OwnId
<1>2. ctopics' = topics \/ ctopics' = [topics EXCEPT ![i].mid = mid]
  OBVIOUS
<1> HIDE DEF mid, nums
<1>3. ctopics \in Collections(nums) /\ Len(ctopics) \in Nat /\ DOMAIN ctopics = 1 .. Len(ctopics)
  BY CollectionLength DEF ClientReady, nums
<1>4. /\ topics \in Collections(nums) /\ i \in 1 .. Len(topics) /\ topics[i].name = name
      /\ Len(topics) \in {Len(ctopics), Len(ctopics) + 1}
      /\ \A j \in 1 .. Len(ctopics) : topics[j] = ctopics[j]
      /\ \A j \in Len(ctopics) + 1 .. Len(topics) :
           topics[j].name = name /\ topics[j].id = 0 /\ topics[j].mid = mid
  BY <1>1, <1>3, RegTopicAdds
<1> HIDE DEF topics, i
<1>5. /\ DOMAIN topics = 1 .. Len(topics) /\ Len(topics) \in Nat
      /\ \A j \in 1 .. Len(topics) : topics[j] \in ATopic(nums)
  BY <1>4, CollectionLength
<1>6. /\ DOMAIN ctopics' = 1 .. Len(topics)
      /\ \A j \in 1 .. Len(topics) : j # i => ctopics'[j] = topics[j]
      /\ ctopics'[i] = topics[i] \/ ctopics'[i].name = name
  <2>1. [topics[i] EXCEPT !.mid = mid].name = name
    BY <1>4, <1>5 DEF ATopic
  <2> QED
    BY <1>2, <1>4, <1>5, <2>1
<1>7. ASSUME NEW j \in DOMAIN ctopics', Awaits(ctopics'[j], mid)
      PROVE  ctopics'[j].name = name \/ \E k \in DOMAIN ctopics : Awaits(ctopics[k], mid)
  <2>1. CASE ctopics'[j].name = name
    BY <2>1
  <2>2. CASE ctopics'[j].name # name
    <3>1. ctopics'[j] = topics[j] /\ j \in 1 .. Len(topics)
      BY <1>4, <1>6, <1>7, <2>2
    <3>2. j \in 1 .. Len(ctopics)
      <4> DEFINE a == Len(ctopics)
                 b == Len(topics)
      <4>1. a \in Nat /\ b \in Nat /\ j \in 1 .. b /\ j \notin a + 1 .. b
        BY <1>3, <1>4, <1>5, <2>2, <3>1
      <4> HIDE DEF a, b
      <4>2. j \in 1 .. a
        BY <4>1
      <4> QED
        BY <4>2 DEF a
    <3> QED
      BY <1>3, <1>4, <1>7, <3>1, <3>2
  <2> QED
    BY <2>1, <2>2
<1> QED
  BY <1>7 DEF AllAsk, mid

LEMMA OwnRegisters ==
  ASSUME ClientReady, Register
  PROVE  OwnRingStep
<1>1. CanAdd(cring) /\ IsRing(cring)
  BY DEF Register, ClientReady
<1>2. \A j \in Places : Became(cring.place[j], cring.place[j])
  BY AgedSelf DEF Became, ClientReady, IsRing
<1>3. PICK name \in Names :
        LET topics == RegTopic(ctopics, name, OwnId)
            i == ByName(topics, name)
        IN /\ ctopics' = topics \/ ctopics' = [topics EXCEPT ![i].mid = OwnId]
           /\ \/ cring' = [Add(cring, "registering") EXCEPT !.place[AddedAt(cring)] = Reset(@)]
              \/ cring' = AddAbout(cring, "registering", "REGISTER", 0, name, 0, KeptQos(cring),
                                  FALSE)
  BY DEF Register, OwnId
<1>4. name \in TopicNames
  BY DEF TopicNames
<1>5. AllAsk(name)
  BY <1>3, <1>4, RegTopicAsks
<1>6. CASE cring' = [Add(cring, "registering") EXCEPT !.place[AddedAt(cring)] = Reset(@)]
  <2> DEFINE a == Add(cring, "registering")
             i == AddedAt(cring)
             f == Fresh(NextId(cring.last), "registering", "none", 0, "", 0, KeptQos(cring), FALSE)
             n == Reset(cring.place[i])
  <2>1. IsRing(a) /\ i \in Places /\ a.place[i] = f
    BY <1>1, PlainAdded
  <2>2. Reset(f) = n
    <3>1. f.qos = KeptQos(cring)
      BY DEF Fresh
    <3> HIDE DEF f
    <3> QED
      BY <3>1 DEF Reset, KeptQos
  <2>3. IsMessage(n)
    BY ResetFields
  <2> HIDE DEF f
  <2>4. cring' = [a EXCEPT !.place[i] = n]
    BY <1>6, <2>1, <2>2 DEF IsRing
  <2> QED
    BY <1>1, <2>3, <2>4, OwnAddedSet
<1>7. CASE cring' = AddAbout(cring, "registering", "REGISTER", 0, name, 0, KeptQos(cring), FALSE)
  <2>1. PICK a, t, z, f, q :
          /\ cring' = AddAbout(cring, a, t, z, name, z, q, f)
          /\ a = "registering" /\ t = "REGISTER" /\ z = 0 /\ f = FALSE /\ q = KeptQos(cring)
    BY <1>7
  <2>2. AddedRequest(Fresh(OwnId, a, t, z, name, z, q, f))
    <3>2. q \in 0 .. 2
      BY <1>1, <2>1, OwnKeptQos, Zenon
    <3>3. f \in BOOLEAN
      BY <2>1
    <3> QED
      BY <1>4, <1>5, <2>1, <3>2, <3>3 DEF AddedRequest
  <2>3. AddedMessage(Fresh(OwnId, a, t, z, name, z, q, f))
    BY <2>2 DEF AddedMessage
  <2> QED
    BY <1>1, <1>2, <2>1, <2>3, OwnAdded
<1> QED
  BY <1>3, <1>6, <1>7

LEMMA OwnSubscribes ==
  ASSUME ClientReady, Subscribe
  PROVE  OwnRingStep
<1>1. CanAdd(cring) /\ IsRing(cring)
  BY DEF Subscribe, ClientReady
<1>2. \A j \in Places : Became(cring.place[j], cring.place[j])
  BY AgedSelf DEF Became, ClientReady, IsRing
<1>3. PICK name \in TopicNames, qos \in Qualities :
        /\ ctopics' = RegTopic(ctopics, name, OwnId)
        /\ \/ cring' = Add(cring, "subscribing")
           \/ cring' = AddAbout(cring, "subscribing", "SUBSCRIBE", 0, name, 0, qos, qos = 0)
  BY DEF Subscribe, OwnId
<1>4. AllAsk(name)
  BY <1>3, RegTopicAsks
<1>5. CASE cring' = Add(cring, "subscribing")
  <2> DEFINE i == AddedAt(cring)
             n == Fresh(NextId(cring.last), "subscribing", "none", 0, "", 0, KeptQos(cring), FALSE)
             a == Add(cring, "subscribing")
  <2>1. /\ IsRing(a) /\ a.last = NextId(cring.last) /\ i \in Places /\ a.place[i] = n
        /\ \A j \in Places \ {i} : a.place[j] = cring.place[j]
    BY <1>1, PlainAdded
  <2>2. AddedMessage(n)
    BY <1>1, OwnKeptQos DEF AddedMessage, OwnId
  <2>3. cring' = a
    BY <1>5
  <2> HIDE DEF n, i, a
  <2>4. /\ IsRing(cring') /\ cring'.last = OwnId
        /\ AddedMessage(cring'.place[i])
        /\ \A j \in Places \ {i} : cring'.place[j] = cring.place[j]
    BY <2>1, <2>2, <2>3 DEF OwnId
  <2>5. \A j \in Places : Became(cring'.place[j], cring.place[j]) \/ AddedMessage(cring'.place[j])
    BY <1>2, <2>4
  <2> QED
    BY <2>4, <2>5 DEF OwnRingStep
<1>6. CASE cring' = AddAbout(cring, "subscribing", "SUBSCRIBE", 0, name, 0, qos, qos = 0)
  <2>1. PICK a, t, z, f :
          /\ cring' = AddAbout(cring, a, t, z, name, z, qos, f)
          /\ a = "subscribing" /\ t = "SUBSCRIBE" /\ z = 0 /\ f = (qos = 0)
    BY <1>6
  <2>2. AddedRequest(Fresh(OwnId, a, t, z, name, z, qos, f))
    <3>1. qos \in 0 .. 2 /\ f \in BOOLEAN
      BY <2>1, QualitiesAssumption
    <3> QED
      BY <1>4, <2>1, <3>1 DEF AddedRequest
  <2>3. AddedMessage(Fresh(OwnId, a, t, z, name, z, qos, f))
    BY <2>2 DEF AddedMessage
  <2> QED
    BY <1>1, <1>2, <2>1, <2>3, OwnAdded
<1> QED
  BY <1>3, <1>5, <1>6

(* received_publish() queues a PUBREC.                                        *)
LEMMA OwnRecords ==
  ASSUME ClientReady, CanAdd(cring), NEW p \in DOMAIN toClient, p.type = "PUBLISH",
         p.data \in Given', cring' = Recorded(p)
  PROVE  OwnRingStep
<1> DEFINE i == AddedAt(cring)
           a == Add(cring, "publishing")
           m == Fresh(NextId(cring.last), "publishing", "none", 0, "", 0, KeptQos(cring), FALSE)
           c == [m EXCEPT !.type = "PUBREC", !.id = p.id, !.ext = TRUE, !.qos = 2]
           n == Recording(p)
<1>1. IsRing(a) /\ a.tail = i /\ i \in Places /\ a.place[i] = m
  BY PlainAdded DEF ClientReady
<1>2. c = n /\ IsMessage(n)
  <2>1. IsMessage(c) /\ IsMessage(n)
    BY DEF IsMessage, Fields, Fresh, Recording
  <2>2. /\ c.active = n.active /\ c.type = n.type /\ c.data = n.data /\ c.tid = n.tid
        /\ c.name = n.name /\ c.id = n.id /\ c.ext = n.ext /\ c.mos = n.mos
        /\ c.qos = n.qos /\ c.activity = n.activity /\ c.sent = n.sent
        /\ c.attempts = n.attempts /\ c.oneshot = n.oneshot
    BY DEF Fresh, Recording
  <2> HIDE DEF c, n
  <2> QED
    BY <2>1, <2>2, SameMessage DEF Fields
<1>3. cring' = [a EXCEPT !.place[a.tail] =
                  [@ EXCEPT !.type = "PUBREC", !.id = p.id, !.ext = TRUE, !.qos = 2]]
  BY DEF Recorded
<1> HIDE DEF m, a, i
<1>4. cring' = [a EXCEPT !.place[i] = n]
  BY <1>1, <1>2, <1>3 DEF IsRing
<1>5. AddedMessage(n)
  BY DEF AddedMessage
<1> HIDE DEF n
<1> QED
  BY <1>2, <1>4, <1>5, OwnAddedSet DEF a, i

LEMMA OwnTopics ==
  ASSUME ClientReady, ClientTopicsHandler
  PROVE  OwnRingStep
<1>1. CASE \/ ReceiveRegister
           \/ Ignored({"REGISTER", "REGACK", "SUBACK", "PUBLISH", "PUBREL"})
  BY <1>1, OwnSame DEF ReceiveRegister, Ignored
<1>2. CASE ReceiveRegack \/ ReceiveSuback
  <2>1. \E p : \/ cring' = cring
               \/ /\ Matches(cring, p.id, FALSE) # {}
                  /\ cring' = Deactivate(cring, Found(cring, p.id, FALSE))
    BY <1>2 DEF ReceiveRegack, ReceiveSuback
  <2> QED
    BY <2>1, FoundOwn, AgedDeactivate, OwnAged, OwnSame DEF ClientReady
<1>3. CASE ReceiveDelivery
  <2>1. \E p \in DOMAIN toClient :
          \/ cring' = cring
          \/ /\ p.type = "PUBLISH" /\ CanAdd(cring) /\ cring' = Recorded(p)
             /\ received' = received \cup {[topic |-> ctopics[ById(ctopics, p.tid)].name,
                                            payload |-> p.name, number |-> p.data]}
    BY <1>3 DEF ReceiveDelivery, RefuseDelivery, AcceptDelivery, ToClient, BagToSet
  <2>2. ASSUME NEW r, NEW p, received' = received \cup {r}, r.number = p.data
        PROVE  p.data \in Given'
    BY <2>2 DEF Given
  <2> QED
    BY <2>1, <2>2, OwnSame, OwnRecords
<1>4. CASE ReceiveDeliveryPubrel
  <2>1. \E p : \/ cring' = cring
               \/ /\ Matches(cring, p.id, TRUE) # {}
                  /\ cring' = Deactivate(cring, Found(cring, p.id, TRUE))
    BY <1>4 DEF ReceiveDeliveryPubrel
  <2> QED
    BY <2>1, FoundExternal, AgedDeactivate, OwnAged, OwnSame DEF ClientReady
<1> QED
  BY <1>1, <1>2, <1>3, <1>4 DEF ClientTopicsHandler

LEMMA OwnRingSteps ==
  ASSUME ClientReady, ClientNext \/ ClientTopicsNext
  PROVE  OwnRingStep
BY OwnCalls, OwnManages, OwnHandles, OwnRegisters, OwnSubscribes, OwnTopics
   DEF ClientNext, ClientTopicsNext

----------------------------------------------------------------------------
(* What the client writes in a step: a message of its ring, or an answer to   *)
(* the packet it takes. It accepts what the application was given.            *)
ReplyTo(x, p) ==
  \/ p.type = "REGISTER" /\ x = Packet("REGACK", p.id, 0, 0)
  \/ p.type = "PUBLISH" /\ \E code \in 0 .. 2 : x = Packet("PUBACK", p.id, 0, code)
                           /\ (code = 0 => p.data \in Given')
  \/ p.type = "PUBREL" /\ x = Packet("PUBCOMP", p.id, 0, 0)
                          /\ \E i \in Places : cring.place[i].ext /\ cring.place[i].id = p.id
ToldToGateway(x) ==
  \/ \E i \in Places : LET m == cring.place[i] IN m.active /\ HasContent(m) /\ x = Cached(m)
  \/ \E p \in DOMAIN toClient : ReplyTo(x, p)
TellStep ==
  /\ DOMAIN toClient' \subseteq DOMAIN toClient
  /\ \A x \in DOMAIN toGateway' : x \in DOMAIN toGateway \/ ToldToGateway(x)

(* What the application is given.                                             *)
HearStep ==
  \/ received' = received
  \/ \E p \in DOMAIN toClient, i \in DOMAIN ctopics :
       /\ cstate = "connected" /\ p.type = "PUBLISH" /\ ctopics[i].id = p.tid
       /\ received' = received \cup
            {[topic |-> ctopics[i].name, payload |-> p.name, number |-> p.data]}

LEMMA TellsNothing ==
  ASSUME DOMAIN toClient' \subseteq DOMAIN toClient, toGateway' = toGateway
  PROVE  TellStep
BY DEF TellStep

LEMMA Tells ==
  ASSUME DOMAIN toClient' \subseteq DOMAIN toClient, NEW x, ToldToGateway(x),
         toGateway' \in Written(toGateway, x)
  PROVE  TellStep
<1>1. DOMAIN toGateway' \subseteq DOMAIN toGateway \cup {x}
  BY PacketWritten
<1> QED
  BY <1>1 DEF TellStep

LEMMA TellsManages ==
  ASSUME ClientReady, ClientManage
  PROVE  TellStep
<1> DEFINE i == Current(cring)
           m == cring.place[i]
<1>1. CASE ClientLost \/ ClientGiveUp \/ ClientIdle
  BY <1>1, TellsNothing DEF ClientLost, ClientGiveUp, ClientIdle, radioVars
<1>2. CASE ClientWrite(TRUE) \/ ClientWrite(FALSE) \/ ClientResend
  <2>1. Active(cring) # {} /\ toClient' = toClient
    BY <1>2 DEF ClientWrite, ClientResend
  <2>2. i \in Places /\ m.active /\ IsMessage(m)
    BY <2>1, CurrentActive DEF ClientReady, Active, IsRing
  <2>3. LET e == Expired(m) IN
          e.type = m.type /\ e.id = m.id /\ e.qos = m.qos /\ e.data = m.data /\ e.tid = m.tid
            /\ e.name = m.name /\ e.sent = m.sent
    BY <2>2, ExpiredFields DEF Fields
  <2>4. HasContent(m)
    <3>1. HasContent(m) \/ Expired(m).sent
      BY <1>2 DEF ClientWrite, ClientResend
    <3> HIDE DEF m, i, Expired
    <3> QED
      BY <2>2, <2>3, <3>1 DEF ClientReady, m
  <2>5. toGateway' \in Written(toGateway, Cached(m)) \/ toGateway' \in Written(toGateway, Cached(Expired(m)))
    BY <1>2 DEF ClientWrite, ClientResend
  <2> HIDE DEF m, i
  <2>6. Cached(Expired(m)) = Cached(m)
    <3> HIDE DEF Expired
    <3> QED
      BY <2>3 DEF Cached
  <2>7. ToldToGateway(Cached(m))
    BY <2>2, <2>4 DEF ToldToGateway, m
  <2> QED
    BY <2>1, <2>5, <2>6, <2>7, Tells
<1> QED
  BY <1>1, <1>2 DEF ClientManage

LEMMA TellsPlainly ==
  ASSUME Connect \/ Disconnect \/ Publish \/ Searchgw \/ ClientRestart \/ ClientHandler
           \/ Register \/ Subscribe
  PROVE  TellStep
<1>1. CASE Connect \/ Disconnect \/ Publish \/ Searchgw \/ ClientRestart \/ Register \/ Subscribe
  BY <1>1, TellsNothing, NoPackets
     DEF Connect, Disconnect, Publish, Searchgw, ClientRestart, Register, Subscribe, radioVars
<1>2. CASE ClientHandler
  <2>1. \E p : ClientTakes(p)
    BY <1>2 DEF ClientHandler, ReceiveConnack, ReceiveWilltopicreq, ReceiveWillmsgreq,
                ReceiveClientDisconnect, ReceiveGwinfo, ReceivePuback, ReceivePubrec, ReceivePubcomp
  <2> QED
    BY <2>1, PacketTaken, TellsNothing DEF ClientTakes
<1> QED
  BY <1>1, <1>2

LEMMA TellsTopics ==
  ASSUME ClientTopicsHandler
  PROVE  TellStep
<1>1. ASSUME NEW p \in DOMAIN toClient, NEW x, ClientAnswers(p, x), ReplyTo(x, p)
      PROVE  TellStep
  <2>1. ToldToGateway(x)
    BY <1>1 DEF ToldToGateway
  <2> QED
    BY <1>1, <2>1, PacketTaken, Tells DEF ClientAnswers
<1>2. ASSUME NEW p, ClientTakes(p)
      PROVE  TellStep
  BY <1>2, PacketTaken, TellsNothing DEF ClientTakes
<1>3. CASE ReceiveRegister
  BY <1>1, <1>3 DEF ReceiveRegister, ReplyTo, ToClient, BagToSet
<1>4. CASE \/ ReceiveRegack \/ ReceiveSuback
           \/ Ignored({"REGISTER", "REGACK", "SUBACK", "PUBLISH", "PUBREL"})
  <2>1. \E p : ClientTakes(p)
    BY <1>4 DEF ReceiveRegack, ReceiveSuback, Ignored
  <2> QED
    BY <1>2, <2>1
<1>5. CASE ReceiveDelivery
  <2>1. CASE RefuseDelivery
    <3>1. PICK p \in DOMAIN toClient :
            p.type = "PUBLISH" /\ ClientAnswers(p, Packet("PUBACK", p.id, 0, 2))
      BY <2>1 DEF RefuseDelivery, ToClient, BagToSet
    <3>2. ReplyTo(Packet("PUBACK", p.id, 0, 2), p)
      BY <3>1 DEF ReplyTo
    <3> QED
      BY <1>1, <3>1, <3>2
  <2>2. CASE AcceptDelivery
    <3>1. PICK p \in DOMAIN toClient :
            /\ p.type = "PUBLISH"
            /\ received' = received \cup {[topic |-> ctopics[ById(ctopics, p.tid)].name,
                                           payload |-> p.name, number |-> p.data]}
            /\ \/ ClientTakes(p)
               \/ ClientAnswers(p, Packet("PUBACK", p.id, 0, 0))
               \/ ClientAnswers(p, Packet("PUBACK", p.id, 0, 1))
      BY <2>2 DEF AcceptDelivery, ToClient, BagToSet
    <3>2. p.data \in Given'
      BY <3>1 DEF Given
    <3>3. ReplyTo(Packet("PUBACK", p.id, 0, 0), p) /\ ReplyTo(Packet("PUBACK", p.id, 0, 1), p)
      BY <3>1, <3>2 DEF ReplyTo
    <3> QED
      BY <1>1, <1>2, <3>1, <3>3
  <2> QED
    BY <1>5, <2>1, <2>2 DEF ReceiveDelivery
<1>6. CASE ReceiveDeliveryPubrel
  <2>1. PICK p \in DOMAIN toClient :
          /\ p.type = "PUBREL"
          /\ \/ ClientTakes(p)
             \/ Matches(cring, p.id, TRUE) # {} /\ ClientAnswers(p, Packet("PUBCOMP", p.id, 0, 0))
    BY <1>6 DEF ReceiveDeliveryPubrel, ToClient, BagToSet
  <2>2. Matches(cring, p.id, TRUE) # {} => ReplyTo(Packet("PUBCOMP", p.id, 0, 0), p)
    BY <2>1, FoundExternal DEF ReplyTo
  <2> QED
    BY <1>1, <1>2, <2>1, <2>2
<1> QED
  BY <1>3, <1>4, <1>5, <1>6 DEF ClientTopicsHandler

LEMMA TellSteps ==
  ASSUME ClientReady, ClientNext \/ ClientTopicsNext
  PROVE  TellStep
BY TellsManages, TellsPlainly, TellsTopics DEF ClientNext, ClientTopicsNext

LEMMA HearSteps ==
  ASSUME ClientReady, ClientNext \/ ClientTopicsNext
  PROVE  HearStep
<1>1. CASE ClientNext
  BY <1>1 DEF ClientNext, Connect, Disconnect, Publish, Searchgw, ClientRestart, ClientManage,
              ClientLost, ClientWrite, ClientResend, ClientGiveUp, ClientIdle, ClientHandler,
              ReceiveConnack, ReceiveWilltopicreq, ReceiveWillmsgreq, ReceiveClientDisconnect,
              ReceiveGwinfo, ReceivePuback, ReceivePubrec, ReceivePubcomp, HearStep
<1>2. CASE ClientTopicsNext
  <2>1. CASE ReceiveDelivery
    <3>1. CASE RefuseDelivery
      BY <3>1 DEF RefuseDelivery, HearStep
    <3>2. CASE AcceptDelivery
      <4>1. PICK p \in DOMAIN toClient :
              /\ p.type = "PUBLISH" /\ ById(ctopics, p.tid) # 0
              /\ received' = received \cup {[topic |-> ctopics[ById(ctopics, p.tid)].name,
                                             payload |-> p.name, number |-> p.data]}
        BY <3>2 DEF AcceptDelivery, ToClient, BagToSet
      <4> DEFINE i == ById(ctopics, p.tid)
      <4>2. DOMAIN ctopics = 1 .. Len(ctopics) /\ Len(ctopics) \in Nat
        BY CollectionLength DEF ClientReady
      <4>3. i \in DOMAIN ctopics /\ ctopics[i].id = p.tid
        BY <4>1, <4>2, ByIdFound
      <4>4. cstate = "connected"
        BY <2>1 DEF ReceiveDelivery
      <4> HIDE DEF i
      <4> QED
        BY <4>1, <4>3, <4>4 DEF HearStep, i
    <3> QED
      BY <2>1, <3>1, <3>2 DEF ReceiveDelivery
  <2>2. CASE ~ReceiveDelivery
    BY <1>2, <2>2 DEF ClientTopicsNext, ClientTopicsHandler, Register, Subscribe, ReceiveRegister,
                      ReceiveRegack, ReceiveSuback, ReceiveDeliveryPubrel, Ignored, HearStep
  <2> QED
    BY <2>1, <2>2
<1> QED
  BY <1>1, <1>2

----------------------------------------------------------------------------
(* The types of Session.TypeOK are kept. That needs more than the types: a    *)
(* message that is active has attempts left, one that was written has         *)
(* content, and what a packet is about depends on what it is.                 *)
Meant(x) ==
  /\ x.type \in {"REGISTER", "SUBSCRIBE"} => x.name \in TopicNames
  /\ x.type \in {"WILLTOPIC", "WILLMSG"} => x.data \in Wills \cup {0}
  /\ x.type = "PUBLISH" => x.data \in Lives
Told(x) ==
  /\ x.type = "REGISTER" => x.name \in TopicNames
  /\ x.type = "PUBLISH" => x.name \in Names /\ x.data \in MessageNumbers
Tries(m) ==
  /\ m.active => m.attempts < Nretry
  /\ m.sent => HasContent(m)

MessageToGateway(m) ==
  TypedMessage(m, ToGatewayTypes, Numbers, {0}, TopicIds, AnyName) /\ Tries(m) /\ Meant(m)
MessageToClient(m) ==
  TypedMessage(m, ToClientTypes, MessageNumbers, 0 .. MaxMids, TopicIds, AnyName) /\ Tries(m) /\ Told(m)
PacketToGateway(x) == x \in Packets(ToGatewayTypes) /\ Meant(x)
PacketToClient(x) == x \in Packets(ToClientTypes) /\ Told(x)

LEMMA NoTries == 0 \in 0 .. Nretry /\ 0 < Nretry
OBVIOUS

LEMMA OneTry ==
  ASSUME NEW k \in 0 .. Nretry, NEW n
  PROVE  /\ n \in {k, 0} => n \in 0 .. Nretry /\ (k < Nretry => n < Nretry)
         /\ n = k + 1 /\ k < Nretry => n \in 0 .. Nretry
         /\ n \in 0 .. Nretry => (n < Nretry <=> ~(n >= Nretry))
OBVIOUS

LEMMA AgedTyped ==
  ASSUME NEW types, NEW datas, NEW nums, NEW tids, NEW names, NEW m, NEW n,
         TypedMessage(m, types, datas, nums, tids, names), Tries(m), Aged(n, m)
  PROVE  TypedMessage(n, types, datas, nums, tids, names) /\ Tries(n)
<1>1. /\ IsMessage(n) /\ n.type = m.type /\ n.data = m.data /\ n.tid = m.tid /\ n.name = m.name
      /\ n.id = m.id /\ n.ext = m.ext /\ n.mos = m.mos /\ n.qos = m.qos
      /\ n.activity = m.activity /\ n.oneshot = m.oneshot
  BY DEF Aged, Fields
<1>2. n.active \in {m.active, FALSE} /\ n.sent \in {m.sent, TRUE} /\ (n.sent = m.sent \/ HasContent(m))
  BY DEF Aged
<1>3. m.active \in BOOLEAN /\ m.sent \in BOOLEAN /\ m.attempts \in 0 .. Nretry
  BY DEF TypedMessage
<1>4. n.active \in BOOLEAN /\ n.sent \in BOOLEAN
  BY <1>2, <1>3
<1>5. n.attempts \in 0 .. Nretry /\ (n.active => n.attempts < Nretry)
  <2>1. CASE n.attempts \in {m.attempts, 0}
    <3>1. n.attempts \in 0 .. Nretry /\ (m.attempts < Nretry => n.attempts < Nretry)
      BY <1>3, <2>1, OneTry, Zenon
    <3>2. n.active => m.active
      BY <1>2
    <3> QED
      BY <3>1, <3>2, Zenon DEF Tries
  <2>2. CASE m.active /\ n.attempts = m.attempts + 1 /\ (n.active => ~HasFailed(n))
    <3>1. n.attempts \in 0 .. Nretry
      BY <1>3, <2>2, OneTry, Zenon DEF Tries
    <3>2. n.active => n.attempts < Nretry
      BY <1>3, <2>2, <3>1, OneTry, Zenon DEF HasFailed
    <3> QED
      BY <3>1, <3>2
  <2> QED
    BY <2>1, <2>2 DEF Aged
<1>6. n.sent => HasContent(n)
  BY <1>1, <1>2 DEF Tries, HasContent
<1>7. TypedMessage(n, types, datas, nums, tids, names)
  BY <1>1, <1>4, <1>5 DEF TypedMessage
<1> QED
  BY <1>5, <1>6, <1>7 DEF Tries

LEMMA BlankTyped == MessageToGateway(Blank) /\ MessageToClient(Blank)
<1>1. 0 \in 0 .. MaxId /\ 0 \in 0 .. Nretry /\ 0 \in 0 .. 2
  OBVIOUS
<1>2. 0 \in Numbers /\ 0 \in MessageNumbers /\ 0 \in 0 .. MaxMids /\ 0 \in TopicIds
  BY MaxMidsAssumption, MaxMessagesAssumption DEF Numbers, MessageNumbers, TopicIds
<1>3. "" \in AnyName /\ "none" \in Activities
  BY DEF AnyName, NoName, Activities
<1>4. IsMessage(Blank)
  BY BlankFields
<1>5. ASSUME NEW types, NEW datas, NEW nums, NEW tids, NEW names,
             0 \in datas, 0 \in nums, 0 \in tids, "" \in names
      PROVE  TypedMessage(Blank, types, datas, nums, tids, names)
  BY <1>1, <1>3, <1>4, <1>5 DEF TypedMessage, Blank
<1>6. Tries(Blank) /\ Told(Blank) /\ Meant(Blank)
  BY DEF Tries, Told, Meant, Blank
<1>7. 0 \in {0}
  OBVIOUS
<1> QED
  BY <1>2, <1>3, <1>5, <1>6, <1>7 DEF MessageToGateway, MessageToClient

LEMMA ResetTyped ==
  ASSUME NEW m, m.qos \in 0 .. 2
  PROVE  MessageToGateway(Reset(m)) /\ MessageToClient(Reset(m))
<1> DEFINE n == Reset(m)
<1>1. /\ IsMessage(n) /\ n.qos = m.qos
      /\ n.active = Blank.active /\ n.type = Blank.type /\ n.data = Blank.data
      /\ n.tid = Blank.tid /\ n.name = Blank.name /\ n.id = Blank.id /\ n.ext = Blank.ext
      /\ n.mos = Blank.mos /\ n.activity = Blank.activity /\ n.sent = Blank.sent
      /\ n.attempts = Blank.attempts /\ n.oneshot = Blank.oneshot
  BY ResetFields DEF Fields
<1> HIDE DEF n
<1>2. ASSUME NEW types, NEW datas, NEW nums, NEW tids, NEW names,
             TypedMessage(Blank, types, datas, nums, tids, names)
      PROVE  TypedMessage(n, types, datas, nums, tids, names)
  BY <1>1, <1>2 DEF TypedMessage
<1>3. Tries(n) /\ Told(n) /\ Meant(n)
  BY <1>1, BlankTyped DEF MessageToGateway, MessageToClient, Tries, Told, Meant, HasContent
<1>4. MessageToGateway(n) /\ MessageToClient(n)
  BY <1>2, <1>3, BlankTyped DEF MessageToGateway, MessageToClient
<1> QED
  BY <1>4 DEF n

(* What an unused or a reset message says.                                    *)
LEMMA EmptyMessage ==
  ASSUME NEW m, NEW n, n = Blank \/ n = Reset(m)
  PROVE  /\ IsMessage(n) /\ n.active = FALSE /\ n.type = "none" /\ n.data = 0 /\ n.tid = 0
         /\ n.name = "" /\ n.id = 0 /\ n.ext = FALSE /\ n.mos = 0
<1>1. /\ Blank.active = FALSE /\ Blank.type = "none" /\ Blank.data = 0 /\ Blank.tid = 0
      /\ Blank.name = "" /\ Blank.id = 0 /\ Blank.ext = FALSE /\ Blank.mos = 0
  BY DEF Blank
<1>2. CASE n = Blank
  BY <1>1, <1>2, BlankFields
<1>3. CASE n = Reset(m)
  <2>1. /\ IsMessage(n) /\ n.active = Blank.active /\ n.type = Blank.type /\ n.data = Blank.data
        /\ n.tid = Blank.tid /\ n.name = Blank.name /\ n.id = Blank.id /\ n.ext = Blank.ext
        /\ n.mos = Blank.mos
    BY <1>3, ResetFields DEF Fields
  <2> QED
    BY <1>1, <2>1
<1> QED
  BY <1>2, <1>3

(* The numbers and names that are always there.                               *)
LEMMA Zeros ==
  /\ 0 \in 0 .. MaxId /\ 0 \in 0 .. 2 /\ 0 \in 0 .. MaxMids /\ 0 \in TopicIds /\ 0 \in {0}
  /\ \A n \in 0 .. 3 : n \in Numbers
  /\ 0 \in MessageNumbers /\ 0 \in Numbers /\ "" \in AnyName /\ NoName \in AnyName
  /\ TopicNames \subseteq AnyName /\ Names \subseteq TopicNames
  /\ Lives \subseteq Numbers /\ MessageNumbers \subseteq Numbers /\ Wills \cup {0} \subseteq Numbers
<1>1. /\ 0 \in 0 .. MaxId /\ 0 \in 0 .. 2 /\ 0 \in 0 .. MaxMids /\ 0 \in TopicIds /\ 0 \in {0}
      /\ 0 \in MessageNumbers /\ 0 \in 0 .. 3
  BY MaxMidsAssumption, MaxMessagesAssumption DEF MessageNumbers, TopicIds
<1>2. /\ \A n \in 0 .. 3 : n \in Numbers
      /\ Lives \subseteq Numbers /\ MessageNumbers \subseteq Numbers /\ Wills \subseteq Numbers
  BY Zenon DEF Numbers
<1>3. "" \in AnyName /\ NoName \in AnyName /\ TopicNames \subseteq AnyName /\ Names \subseteq TopicNames
  BY DEF AnyName, NoName, TopicNames
<1>4. 0 \in Numbers
  BY <1>1, <1>2
<1> QED
  BY <1>1, <1>2, <1>3, <1>4

(* What the gateway makes of a message, and the messages it adds.             *)
LEMMA TurnedTyped ==
  ASSUME NEW m, NEW n, MessageToClient(m), Turned(n, m)
  PROVE  MessageToClient(n)
<1> DEFINE nums == 0 .. MaxMids
<1>1. TypedMessage(m, ToClientTypes, MessageNumbers, nums, TopicIds, AnyName) /\ Tries(m) /\ Told(m)
  BY DEF MessageToClient
<1>2. ASSUME TypedMessage(n, ToClientTypes, MessageNumbers, nums, TopicIds, AnyName), Tries(n), Told(n)
      PROVE  MessageToClient(n)
  BY <1>2 DEF MessageToClient
<1> HIDE DEF nums
<1>3. CASE Aged(n, m)
  <2>1. TypedMessage(n, ToClientTypes, MessageNumbers, nums, TopicIds, AnyName) /\ Tries(n)
    BY <1>1, <1>3, AgedTyped
  <2>2. n.type = m.type /\ n.name = m.name /\ n.data = m.data
    BY <1>3 DEF Aged, Fields
  <2>3. Told(n)
    BY <1>1, <2>2 DEF Told
  <2> QED
    BY <1>2, <2>1, <2>3
<1>4. m.data \in MessageNumbers /\ IsMessage(m)
  BY <1>1 DEF TypedMessage
<1>5. ASSUME NEW type \in ToClientTypes \ {"REGISTER", "PUBLISH"}, NEW data \in MessageNumbers,
             NEW activity \in Activities, n = ReplaceWith(m, type, data, activity)
      PROVE  MessageToClient(n)
  <2>1. /\ IsMessage(n) /\ n.type = type /\ n.data = data /\ n.activity = activity
        /\ n.active = m.active /\ n.id = m.id /\ n.ext = m.ext /\ n.mos = m.mos
        /\ n.qos = m.qos /\ n.oneshot = m.oneshot
        /\ n.tid = m.tid /\ n.name = "" /\ n.attempts = 0 /\ n.sent = FALSE
    BY <1>4, <1>5 DEF ReplaceWith, IsMessage, Fields
  <2>3. n.attempts \in 0 .. Nretry /\ n.attempts < Nretry /\ n.sent \in BOOLEAN
    BY <2>1, NoTries
  <2>4. TypedMessage(n, ToClientTypes, MessageNumbers, nums, TopicIds, AnyName) /\ Tries(n)
    BY <1>1, <2>1, <2>3, Zeros DEF TypedMessage, Tries
  <2>2. Told(n)
    BY <2>1 DEF Told
  <2> QED
    BY <1>2, <2>2, <2>4
<1>6. CASE n = ReplaceWith(m, "WILLMSGREQ", 0, "willmessage")
  <2>1. "WILLMSGREQ" \in ToClientTypes \ {"REGISTER", "PUBLISH"} /\ "willmessage" \in Activities
    BY DEF ToClientTypes, Activities
  <2> QED
    BY <1>5, <1>6, <2>1, Zeros
<1>7. CASE n = ReplaceWith(m, "PUBREL", m.data, "publishing")
  <2>1. "PUBREL" \in ToClientTypes \ {"REGISTER", "PUBLISH"} /\ "publishing" \in Activities
    BY DEF ToClientTypes, Activities
  <2> QED
    BY <1>4, <1>5, <1>7, <2>1
<1>8. CASE \E type \in {"PUBREC", "SUBACK"} : n = [m EXCEPT !.type = type]
  <2>1. PICK type \in {"PUBREC", "SUBACK"} : n = [m EXCEPT !.type = type]
    BY <1>8
  <2>2. /\ IsMessage(n) /\ n.type = type
        /\ \A f \in Fields \ {"type"} : n[f] = m[f]
    BY <1>4, <2>1 DEF IsMessage, Fields
  <2>3. /\ n.active = m.active /\ n.data = m.data /\ n.tid = m.tid /\ n.name = m.name
        /\ n.id = m.id /\ n.ext = m.ext /\ n.mos = m.mos /\ n.qos = m.qos /\ n.sent = m.sent
        /\ n.activity = m.activity /\ n.oneshot = m.oneshot /\ n.attempts = m.attempts
    BY <2>2 DEF Fields
  <2>4. type \in ToClientTypes
    BY DEF ToClientTypes
  <2>5. TypedMessage(n, ToClientTypes, MessageNumbers, nums, TopicIds, AnyName)
    BY <1>1, <2>2, <2>3, <2>4 DEF TypedMessage
  <2>6. Tries(n) /\ Told(n)
    BY <1>1, <2>2, <2>3 DEF Tries, Told, HasContent
  <2> QED
    BY <1>2, <2>5, <2>6
<1>9. CASE n = Reset(m)
  BY <1>1, <1>9, ResetTyped DEF TypedMessage
<1> QED
  BY <1>3, <1>6, <1>7, <1>8, <1>9, BlankTyped DEF Turned

LEMMA FreshToClient ==
  ASSUME NEW id \in 0 .. MaxId, NEW activity \in Activities,
         NEW type \in ToClientTypes \cup {"none"},
         NEW tid \in TopicIds, NEW name \in AnyName, NEW data \in MessageNumbers, NEW qos \in 0 .. 2,
         NEW oneshot \in BOOLEAN,
         type = "REGISTER" => name \in TopicNames,
         type = "PUBLISH" => name \in Names
  PROVE  MessageToClient(Fresh(id, activity, type, tid, name, data, qos, oneshot))
<1> DEFINE n == Fresh(id, activity, type, tid, name, data, qos, oneshot)
           nums == 0 .. MaxMids
<1>1. /\ n.active = TRUE /\ n.type = type /\ n.data = data /\ n.tid = tid /\ n.name = name
      /\ n.id = id /\ n.ext = FALSE /\ n.mos = 0 /\ n.qos = qos /\ n.activity = activity
      /\ n.sent = FALSE /\ n.attempts = 0 /\ n.oneshot = oneshot
  BY DEF Fresh
<1>2. IsMessage(n)
  BY DEF IsMessage, Fields, Fresh
<1>3. 0 \in nums
  BY Zeros
<1> HIDE DEF n, nums
<1>4. 0 \in 0 .. Nretry /\ 0 < Nretry
  BY NoTries, Zenon
<1>5. n.active \in BOOLEAN /\ n.ext \in BOOLEAN /\ n.sent \in BOOLEAN /\ n.attempts \in 0 .. Nretry
  BY <1>1, <1>4
<1>6. TypedMessage(n, ToClientTypes, MessageNumbers, nums, TopicIds, AnyName)
  BY <1>1, <1>2, <1>3, <1>5 DEF TypedMessage
<1>7. Tries(n) /\ Told(n)
  BY <1>1, <1>4 DEF Tries, Told
<1> QED
  BY <1>6, <1>7 DEF MessageToClient, n, nums

LEMMA AwaitingToClient ==
  ASSUME NEW x, PacketToGateway(x), NEW activity \in Activities, NEW tid \in TopicIds,
         NEW mid \in 0 .. MaxMids, NEW oneshot \in BOOLEAN
  PROVE  MessageToClient(Awaiting(x, activity, tid, mid, oneshot))
<1> DEFINE n == Awaiting(x, activity, tid, mid, oneshot)
           nums == 0 .. MaxMids
<1>1. /\ n.active = TRUE /\ n.type = "none" /\ n.data = 0 /\ n.tid = tid /\ n.name = ""
      /\ n.id = x.id /\ n.ext = TRUE /\ n.mos = mid /\ n.qos = x.qos /\ n.activity = activity
      /\ n.sent = FALSE /\ n.attempts = 0 /\ n.oneshot = oneshot
  BY DEF Awaiting
<1>2. IsMessage(n)
  BY DEF IsMessage, Fields, Awaiting
<1>3. x.id \in 0 .. MaxId /\ x.qos \in 0 .. 2
  BY DEF PacketToGateway, Packets
<1>4. mid \in nums
  OBVIOUS
<1> HIDE DEF n, nums
<1>5. 0 \in 0 .. Nretry /\ 0 < Nretry
  BY NoTries, Zenon
<1>6. n.active \in BOOLEAN /\ n.ext \in BOOLEAN /\ n.sent \in BOOLEAN /\ n.attempts \in 0 .. Nretry
  BY <1>1, <1>5
<1>7. TypedMessage(n, ToClientTypes, MessageNumbers, nums, TopicIds, AnyName)
  BY <1>1, <1>2, <1>3, <1>4, <1>6, Zeros DEF TypedMessage
<1>8. Tries(n) /\ Told(n)
  BY <1>1, <1>5 DEF Tries, Told
<1> QED
  BY <1>7, <1>8 DEF MessageToClient, n, nums

LEMMA NewTyped ==
  ASSUME gring.last \in 0 .. MaxId, gtopics' \in Collections(0 .. MaxId), mids' \in 0 .. MaxMids,
         messages' \in MessageNumbers, \A x \in DOMAIN toGateway : PacketToGateway(x),
         NEW n, NewMessage(n)
  PROVE  MessageToClient(n)
<1> DEFINE id == NextId(gring.last)
<1>1. id \in 0 .. MaxId
  <2>1. id \in 1 .. MaxId
    BY NextIdType
  <2> QED
    BY <2>1
<1>2. \A j \in DOMAIN gtopics' : gtopics'[j].id \in TopicIds /\ gtopics'[j].name \in TopicNames
  BY CollectionLength DEF ATopic
<1>3. {"willtopic", "registering", "registeringall", "publishing", "subscribing"} \subseteq Activities
  BY DEF Activities
<1>4. {"WILLTOPICREQ", "REGISTER", "PUBLISH"} \subseteq ToClientTypes
  BY DEF ToClientTypes
<1>5. CASE AsksWill(n)
  <2>1. PICK qos, a, t, z, e, f :
          /\ qos \in 0 .. 2 /\ n = Fresh(id, a, t, z, e, z, qos, f)
          /\ a = "willtopic" /\ t = "WILLTOPICREQ" /\ z = 0 /\ e = "" /\ f = FALSE
    BY <1>5 DEF AsksWill
  <2>2. a \in Activities /\ t \in ToClientTypes /\ f \in BOOLEAN /\ t # "REGISTER" /\ t # "PUBLISH"
    BY <1>3, <1>4, <2>1
  <2>3. z \in TopicIds /\ z \in MessageNumbers /\ e \in AnyName
    BY <2>1, Zeros
  <2> HIDE DEF id
  <2> QED
    BY <1>1, <2>1, <2>2, <2>3, FreshToClient
<1>6. CASE Telling(n)
  <2>1. PICK j \in DOMAIN gtopics', a \in {"registering", "registeringall"}, qos \in 0 .. 2 :
          n = Fresh(id, a, "REGISTER", gtopics'[j].id, gtopics'[j].name, 0, qos, FALSE)
    BY <1>6 DEF Telling
  <2>2. PICK t, z, f : /\ n = Fresh(id, a, t, gtopics'[j].id, gtopics'[j].name, z, qos, f)
                       /\ t = "REGISTER" /\ z = 0 /\ f = FALSE
    BY <2>1
  <2>3. a \in Activities /\ t \in ToClientTypes /\ f \in BOOLEAN /\ t # "PUBLISH"
    BY <1>3, <1>4, <2>2
  <2>4. z \in MessageNumbers /\ gtopics'[j].name \in AnyName
    BY <1>2, <2>2, Zeros
  <2> HIDE DEF id
  <2> QED
    BY <1>1, <1>2, <2>2, <2>3, <2>4, FreshToClient
<1>7. CASE Delivering(n)
  <2>1. PICK tid \in TopicIds, name \in Names, number \in 1 .. messages', qos \in 0 .. 2,
             oneshot \in BOOLEAN :
          n = Fresh(id, "publishing", "PUBLISH", tid, name, number, qos, oneshot)
    BY <1>7 DEF Delivering
  <2>2. PICK a, t : /\ n = Fresh(id, a, t, tid, name, number, qos, oneshot)
                    /\ a = "publishing" /\ t = "PUBLISH"
    BY <2>1
  <2>3. a \in Activities /\ t \in ToClientTypes /\ t # "REGISTER"
    BY <1>3, <1>4, <2>2
  <2>4. name \in AnyName
    BY Zeros
  <2>5. number \in MessageNumbers
    BY MaxMessagesAssumption DEF MessageNumbers
  <2> HIDE DEF id
  <2> QED
    BY <1>1, <2>2, <2>3, <2>4, <2>5, FreshToClient
<1>8. CASE WaitingFor(n)
  <2>1. \E x \in DOMAIN toGateway :
          \/ n = Awaiting(x, "publishing", 0, mids', FALSE)
          \/ \E j \in DOMAIN gtopics' : n = Awaiting(x, "subscribing", gtopics'[j].id, mids', TRUE)
    BY <1>8 DEF WaitingFor
  <2>2. PICK x, a, tid, f :
          /\ x \in DOMAIN toGateway /\ n = Awaiting(x, a, tid, mids', f)
          /\ a \in Activities /\ tid \in TopicIds /\ f \in BOOLEAN
    BY <1>2, <1>3, <2>1, Zeros
  <2> QED
    BY <2>2, AwaitingToClient
<1>9. CASE GivenUp(n)
  <2>1. PICK qos, a, t, z, e, f :
          /\ qos \in 0 .. 2 /\ n = [Fresh(id, a, t, z, e, z, qos, f) EXCEPT !.active = FALSE]
          /\ a = "publishing" /\ t = "none" /\ z = 0 /\ e = "" /\ f = FALSE
    BY <1>9 DEF GivenUp
  <2> DEFINE m == Fresh(id, a, t, z, e, z, qos, f)
  <2>2. /\ a \in Activities /\ t \in ToClientTypes \cup {"none"} /\ f \in BOOLEAN
        /\ t # "REGISTER" /\ t # "PUBLISH"
    BY <1>3, <2>1
  <2>3. z \in TopicIds /\ z \in MessageNumbers /\ e \in AnyName
    BY <2>1, Zeros
  <2> HIDE DEF id
  <2>5. n = [m EXCEPT !.active = FALSE]
    BY <2>1
  <2>6. qos \in 0 .. 2
    BY <2>1
  <2>8. MessageToClient(m)
    BY <1>1, <2>2, <2>3, <2>6, FreshToClient
  <2> HIDE DEF m
  <2>7. Aged(n, m)
    BY <2>5, <2>8, AgedInactive DEF MessageToClient, TypedMessage
  <2> QED
    BY <2>7, <2>8, TurnedTyped DEF Turned
<1> QED
  BY <1>5, <1>6, <1>7, <1>8, <1>9 DEF NewMessage

(* What the client makes of a message, and the messages it adds.              *)
LEMMA BecameTyped ==
  ASSUME cwill \in Wills \cup {0}, NEW m, NEW n, MessageToGateway(m), Became(n, m)
  PROVE  MessageToGateway(n)
<1> DEFINE nums == {0}
<1>1. TypedMessage(m, ToGatewayTypes, Numbers, nums, TopicIds, AnyName) /\ Tries(m) /\ Meant(m)
  BY DEF MessageToGateway
<1>2. ASSUME TypedMessage(n, ToGatewayTypes, Numbers, nums, TopicIds, AnyName), Tries(n), Meant(n)
      PROVE  MessageToGateway(n)
  BY <1>2 DEF MessageToGateway
<1> HIDE DEF nums
<1>3. CASE Aged(n, m)
  <2>1. TypedMessage(n, ToGatewayTypes, Numbers, nums, TopicIds, AnyName) /\ Tries(n)
    BY <1>1, <1>3, AgedTyped
  <2>2. n.type = m.type /\ n.name = m.name /\ n.data = m.data
    BY <1>3 DEF Aged, Fields
  <2>3. Meant(n)
    BY <1>1, <2>2 DEF Meant
  <2> QED
    BY <1>2, <2>1, <2>3
<1>4. IsMessage(m)
  BY <1>1 DEF TypedMessage
<1>5. ASSUME NEW type \in {"WILLTOPIC", "WILLMSG", "PUBREL"}, NEW data \in Wills \cup {0},
             NEW activity \in Activities, n = ReplaceWith(m, type, data, activity)
      PROVE  MessageToGateway(n)
  <2>1. /\ IsMessage(n) /\ n.type = type /\ n.data = data /\ n.activity = activity
        /\ n.active = m.active /\ n.id = m.id /\ n.ext = m.ext /\ n.mos = m.mos
        /\ n.qos = m.qos /\ n.oneshot = m.oneshot
        /\ n.tid = m.tid /\ n.name = "" /\ n.attempts = 0 /\ n.sent = FALSE
    BY <1>4, <1>5 DEF ReplaceWith, IsMessage, Fields
  <2>2. n.attempts \in 0 .. Nretry /\ n.attempts < Nretry /\ n.sent \in BOOLEAN
    BY <2>1, NoTries
  <2>3. data \in Numbers /\ type \in ToGatewayTypes
    BY Zeros DEF ToGatewayTypes
  <2>4. TypedMessage(n, ToGatewayTypes, Numbers, nums, TopicIds, AnyName) /\ Tries(n)
    BY <1>1, <2>1, <2>2, <2>3, Zeros DEF TypedMessage, Tries
  <2>5. Meant(n)
    BY <2>1 DEF Meant
  <2> QED
    BY <1>2, <2>4, <2>5
<1>6. {"willtopic", "willmessage", "publishing"} \subseteq Activities
  BY DEF Activities
<1>7. CASE n = ReplaceWith(m, "WILLTOPIC", cwill, "willtopic")
  BY <1>5, <1>6, <1>7
<1>8. CASE n = ReplaceWith(m, "WILLMSG", cwill, "willmessage")
  BY <1>5, <1>6, <1>8
<1>9. CASE n = ReplaceWith(m, "PUBREL", 0, "publishing")
  <2>1. PICK data \in Wills \cup {0} : n = ReplaceWith(m, "PUBREL", data, "publishing")
    BY <1>9
  <2> QED
    BY <1>5, <1>6, <2>1
<1>10. CASE n = Reset(m)
  BY <1>1, <1>10, ResetTyped DEF TypedMessage
<1> QED
  BY <1>3, <1>7, <1>8, <1>9, <1>10, BlankTyped DEF Became

LEMMA FreshToGateway ==
  ASSUME NEW id \in 0 .. MaxId, NEW activity \in Activities,
         NEW type \in ToGatewayTypes \cup {"none"},
         NEW tid \in TopicIds, NEW name \in AnyName, NEW data \in Numbers, NEW qos \in 0 .. 2,
         NEW oneshot \in BOOLEAN,
         type \in {"REGISTER", "SUBSCRIBE"} => name \in TopicNames,
         type \notin {"WILLTOPIC", "WILLMSG"},
         type = "PUBLISH" => data \in Lives
  PROVE  MessageToGateway(Fresh(id, activity, type, tid, name, data, qos, oneshot))
<1> DEFINE n == Fresh(id, activity, type, tid, name, data, qos, oneshot)
           nums == {0}
<1>1. /\ n.active = TRUE /\ n.type = type /\ n.data = data /\ n.tid = tid /\ n.name = name
      /\ n.id = id /\ n.ext = FALSE /\ n.mos = 0 /\ n.qos = qos /\ n.activity = activity
      /\ n.sent = FALSE /\ n.attempts = 0 /\ n.oneshot = oneshot
  BY DEF Fresh
<1>2. IsMessage(n)
  BY DEF IsMessage, Fields, Fresh
<1>3. 0 \in nums
  BY Zeros
<1> HIDE DEF n, nums
<1>4. 0 \in 0 .. Nretry /\ 0 < Nretry
  BY NoTries, Zenon
<1>5. n.active \in BOOLEAN /\ n.ext \in BOOLEAN /\ n.sent \in BOOLEAN /\ n.attempts \in 0 .. Nretry
  BY <1>1, <1>4
<1>6. TypedMessage(n, ToGatewayTypes, Numbers, nums, TopicIds, AnyName)
  BY <1>1, <1>2, <1>3, <1>5 DEF TypedMessage
<1>7. Tries(n) /\ Meant(n)
  BY <1>1, <1>4 DEF Tries, Meant
<1> QED
  BY <1>6, <1>7 DEF MessageToGateway, n, nums

LEMMA RecordingToGateway ==
  ASSUME NEW x, x.id \in 0 .. MaxId
  PROVE  MessageToGateway(Recording(x))
<1> DEFINE n == Recording(x)
           nums == {0}
<1>1. /\ n.active = TRUE /\ n.type = "PUBREC" /\ n.data = 0 /\ n.tid = 0 /\ n.name = ""
      /\ n.id = x.id /\ n.ext = TRUE /\ n.mos = 0 /\ n.qos = 2 /\ n.activity = "publishing"
      /\ n.sent = FALSE /\ n.attempts = 0 /\ n.oneshot = FALSE
  BY DEF Recording
<1>2. IsMessage(n)
  BY DEF IsMessage, Fields, Recording
<1>3. 0 \in nums
  OBVIOUS
<1>9. 2 \in 0 .. 2
  OBVIOUS
<1>8. "PUBREC" \in ToGatewayTypes /\ "publishing" \in Activities
  BY DEF ToGatewayTypes, Activities
<1> HIDE DEF n, nums
<1>4. 0 \in 0 .. Nretry /\ 0 < Nretry
  BY NoTries, Zenon
<1>5. n.active \in BOOLEAN /\ n.ext \in BOOLEAN /\ n.sent \in BOOLEAN /\ n.attempts \in 0 .. Nretry
        /\ n.oneshot \in BOOLEAN
  BY <1>1, <1>4
<1>6. TypedMessage(n, ToGatewayTypes, Numbers, nums, TopicIds, AnyName)
  BY <1>1, <1>2, <1>3, <1>5, <1>8, <1>9, Zeros DEF TypedMessage
<1>7. Tries(n) /\ Meant(n)
  BY <1>1, <1>4 DEF Tries, Meant
<1> QED
  BY <1>6, <1>7 DEF MessageToGateway, n, nums

LEMMA AddedTyped ==
  ASSUME cring.last \in 0 .. MaxId, made["restart"] \in Lives,
         \A x \in DOMAIN toClient : x.id \in 0 .. MaxId,
         NEW n, AddedMessage(n)
  PROVE  MessageToGateway(n)
<1>1. OwnId \in 0 .. MaxId
  <2>1. OwnId \in 1 .. MaxId
    BY NextIdType DEF OwnId
  <2> QED
    BY <2>1
<1>2. {"none", "willtopic", "disconnecting", "searching", "publishing", "registering", "subscribing"}
        \subseteq Activities
  BY DEF Activities
<1>3. {"CONNECT", "DISCONNECT", "SEARCHGW", "PUBLISH", "REGISTER", "SUBSCRIBE", "none"}
        \subseteq ToGatewayTypes \cup {"none"}
  BY DEF ToGatewayTypes
<1>4. CASE AddedRequest(n)
  <2>1. PICK name, qos, f, a, t, z :
          /\ name \in TopicNames /\ qos \in 0 .. 2 /\ f \in BOOLEAN
          /\ n = Fresh(OwnId, a, t, z, name, z, qos, f)
          /\ z = 0 /\ a \in {"registering", "subscribing"} /\ t \in {"REGISTER", "SUBSCRIBE"}
    BY <1>4 DEF AddedRequest
  <2>2. a \in Activities /\ t \in ToGatewayTypes \cup {"none"} /\ name \in AnyName
    BY <1>2, <1>3, <2>1, Zeros
  <2>3. z \in TopicIds /\ z \in Numbers
    BY <2>1, Zeros
  <2>4. t \notin {"WILLTOPIC", "WILLMSG"} /\ t # "PUBLISH"
    BY <2>1
  <2> QED
    BY <1>1, <2>1, <2>2, <2>3, <2>4, FreshToGateway
<1>5. CASE \E x \in DOMAIN toClient : n = Recording(x)
  BY <1>5, RecordingToGateway
<1>6. CASE \E tid \in TopicIds, qos \in 0 .. 2, oneshot \in BOOLEAN :
             n = Fresh(OwnId, "publishing", "PUBLISH", tid, NoName, made["restart"], qos, oneshot)
  <2>1. PICK tid, qos, f, a, t, e :
          /\ tid \in TopicIds /\ qos \in 0 .. 2 /\ f \in BOOLEAN
          /\ n = Fresh(OwnId, a, t, tid, e, made["restart"], qos, f)
          /\ a = "publishing" /\ t = "PUBLISH" /\ e = NoName
    BY <1>6
  <2>2. a \in Activities /\ t \in ToGatewayTypes \cup {"none"} /\ e \in AnyName
    BY <1>2, <1>3, <2>1, Zeros
  <2>3. made["restart"] \in Numbers
    BY Zeros
  <2>4. t \notin {"WILLTOPIC", "WILLMSG"} /\ t \notin {"REGISTER", "SUBSCRIBE"}
    BY <2>1
  <2> QED
    BY <1>1, <2>1, <2>2, <2>3, <2>4, FreshToGateway
<1>7. CASE \/ \E activity \in {"willtopic", "none"}, flags \in Flags, qos \in 0 .. 2 :
                n = Fresh(OwnId, activity, "CONNECT", 0, "", flags, qos, FALSE)
           \/ \E sleep \in {0, 1}, qos \in 0 .. 2 :
                n = Fresh(OwnId, "disconnecting", "DISCONNECT", 0, "", sleep, qos, FALSE)
           \/ \E qos \in 0 .. 2 : n = Fresh(OwnId, "searching", "SEARCHGW", 0, "", 0, qos, FALSE)
           \/ \E qos \in 0 .. 2 : n = Fresh(OwnId, "subscribing", "none", 0, "", 0, qos, FALSE)
  <2>1. /\ \A flags \in Flags : flags \in Numbers
        /\ \A sleep \in {0, 1} : sleep \in Numbers
    <3>1. \A flags \in Flags : flags \in 0 .. 3
      BY FlagsAssumption
    <3>2. \A sleep \in {0, 1} : sleep \in 0 .. 3
      OBVIOUS
    <3> QED
      BY <3>1, <3>2, Zeros, Zenon
  <2>2. PICK a, t, z, e, d, q, f :
          /\ n = Fresh(OwnId, a, t, z, e, d, q, f) /\ q \in 0 .. 2
          /\ z = 0 /\ e = "" /\ f = FALSE /\ d \in Numbers
          /\ a \in {"none", "willtopic", "disconnecting", "searching", "subscribing"}
          /\ t \in {"CONNECT", "DISCONNECT", "SEARCHGW", "none"}
    BY <1>7, <2>1, Zeros
  <2>3. a \in Activities /\ t \in ToGatewayTypes \cup {"none"} /\ e \in AnyName /\ f \in BOOLEAN
    BY <1>2, <1>3, <2>2, Zeros
  <2>4. z \in TopicIds
    BY <2>2, Zeros
  <2>5. t \notin {"WILLTOPIC", "WILLMSG"} /\ t \notin {"REGISTER", "SUBSCRIBE"} /\ t # "PUBLISH"
    BY <2>2
  <2> QED
    BY <1>1, <2>2, <2>3, <2>4, <2>5, FreshToGateway
<1> QED
  BY <1>4, <1>5, <1>6, <1>7 DEF AddedMessage

(* The rest of the types, by what belongs together.                           *)
RecordTyped ==
  /\ gstate \in States \cup {"none"}
  /\ gsend \in BOOLEAN
  /\ gwill \in Wishes /\ wills \subseteq Wishes
  /\ grestarts \in 0 .. MaxGatewayRestarts
MosquittoTyped ==
  /\ mids \in 0 .. MaxMids
  /\ waiting \subseteq [mid : 1 .. MaxMids, life : Lives, id : 0 .. MaxId]
  /\ pending \subseteq 1 .. MaxMids
  /\ stored \subseteq Publications
  /\ brokersubs \subseteq TopicNames
BrokerTyped == messages \in MessageNumbers /\ confirmed \subseteq MessageNumbers
AnnouncedTyped == announced \subseteq Names
PacketsTyped ==
  /\ \A x \in DOMAIN toGateway : PacketToGateway(x)
  /\ \A x \in DOMAIN toClient : PacketToClient(x)

LEMMA RecordHandlers ==
  ASSUME RecordTyped, PacketsTyped, GatewayHandler
  PROVE  RecordTyped'
<1>1. CASE ReceiveConnect
  <2>1. /\ gstate' \in {"connecting", "connected"} /\ gwill' \in {NoWill, gwill}
        /\ wills' = wills /\ grestarts' = grestarts
    BY <1>1 DEF ReceiveConnect
  <2>2. gsend' \in BOOLEAN
    BY <1>1 DEF ReceiveConnect
  <2>3. NoWill \in Wishes
    BY DEF NoWill, Wishes
  <2> QED
    BY <2>1, <2>2, <2>3 DEF RecordTyped, States
<1>2. CASE ReceiveWilltopic \/ ReceiveWillmsg
  <2>1. PICK p \in DOMAIN toGateway :
          /\ p.type \in {"WILLTOPIC", "WILLMSG"}
          /\ gstate' \in {gstate, "connected"}
          /\ gwill' \in {gwill, NoWill, [gwill EXCEPT !.topic = p.data], [gwill EXCEPT !.message = p.data]}
          /\ gsend' = gsend /\ wills' = wills /\ grestarts' = grestarts
    BY <1>2 DEF ReceiveWilltopic, ReceiveWillmsg, ToGateway, BagToSet, TurnAway, gatewayVars
  <2>2. p.data \in Wills \cup {0}
    BY <2>1 DEF PacketsTyped, PacketToGateway, Meant
  <2>3. gwill' \in Wishes
    BY <2>1, <2>2 DEF NoWill, Wishes, RecordTyped
  <2> QED
    BY <2>1, <2>3 DEF RecordTyped, States
<1>3. CASE ReceiveDisconnect \/ ReceiveSearchgw \/ ReceivePublish \/ ReceivePubrel
  BY <1>3 DEF ReceiveDisconnect, ReceiveSearchgw, ReceivePublish, ReceivePubrel, TurnAway, gatewayVars,
              RecordTyped, States
<1> QED
  BY <1>1, <1>2, <1>3 DEF GatewayHandler

LEMMA RecordSteps ==
  ASSUME RecordTyped, PacketsTyped, GatewayNext \/ GatewayTopicsNext
  PROVE  RecordTyped'
<1>1. CASE PublishCallback
  BY <1>1 DEF PublishCallback, RecordTyped
<1>2. CASE GatewayManage
  <2>1. /\ gstate' \in {gstate, "connected", "disconnected"}
        /\ gsend' = gsend /\ gwill' = gwill /\ wills' \in {wills, wills \cup {gwill}}
        /\ grestarts' = grestarts
    BY <1>2 DEF GatewayManage, GatewayLost, GatewayWrite, GatewayResend, GatewayGiveUp, GatewayIdle
  <2> QED
    BY <2>1 DEF RecordTyped, States
<1>3. CASE GatewayRestart
  <2>1. NoWill \in Wishes
    BY DEF NoWill, Wishes
  <2>2. grestarts' \in 0 .. MaxGatewayRestarts
    BY <1>3, MaxGatewayRestartsAssumption DEF GatewayRestart, RecordTyped
  <2> QED
    BY <1>3, <2>1, <2>2 DEF GatewayRestart, RecordTyped
<1>4. CASE GatewayTopicsHandler
  <2>1. gstate' = gstate /\ gwill' = gwill /\ wills' = wills /\ grestarts' = grestarts
    BY <1>4 DEF GatewayTopicsHandler
  <2>2. gsend' \in BOOLEAN
    BY <1>4 DEF GatewayTopicsHandler, ReceiveTopic, ReceiveSubscribe, ReceiveTopicAck,
                ReceiveDelivered, ReceiveRecorded, ReceiveCompleted, Handle, TurnAway, gatewayVars,
                RecordTyped
  <2> QED
    BY <2>1, <2>2 DEF RecordTyped
<1>5. CASE SubscribeCallback \/ MessageCallback \/ MessageTail
  BY <1>5 DEF SubscribeCallback, MessageCallback, MessageTail, RecordTyped
<1> QED
  BY <1>1, <1>2, <1>3, <1>4, <1>5, RecordHandlers DEF GatewayNext, GatewayTopicsNext

LEMMA MosquittoSteps ==
  ASSUME MosquittoTyped, PacketsTyped, GatewayNext \/ GatewayTopicsNext
  PROVE  MosquittoTyped'
<1>1. CASE UNCHANGED <<mids, waiting, pending, stored, brokersubs>>
  BY <1>1 DEF MosquittoTyped
<1>2. CASE ReceiveConnect \/ ReceiveWilltopic \/ ReceiveWillmsg \/ ReceiveDisconnect
             \/ ReceiveSearchgw \/ ReceivePubrel
  BY <1>1, <1>2 DEF ReceiveConnect, ReceiveWilltopic, ReceiveWillmsg, ReceiveDisconnect,
                    ReceiveSearchgw, ReceivePubrel, TurnAway, gatewayVars, topicVars, publishVars
<1>3. CASE ReceivePublish
  <2>1. PICK p \in DOMAIN toGateway :
          /\ p.type = "PUBLISH"
          /\ brokersubs' = brokersubs
          /\ \/ UNCHANGED <<mids, waiting, pending, stored>>
             \/ Accept(p) /\ pending' = pending /\ stored' = stored
    BY <1>3 DEF ReceivePublish, Forward, Refuse, ToGateway, BagToSet, TurnAway, gatewayVars, topicVars,
                publishVars
  <2>2. CASE Accept(p) /\ pending' = pending /\ stored' = stored
    <3>1. p.data \in Lives /\ p.id \in 0 .. MaxId
      BY <2>1 DEF PacketsTyped, PacketToGateway, Meant, Packets
    <3>2. mids' \in 0 .. MaxMids /\ mids' \in 1 .. MaxMids
      BY <2>2, MaxMidsAssumption DEF Accept, MosquittoTyped
    <3>3. [mid |-> mids', life |-> p.data, id |-> p.id] \in [mid : 1 .. MaxMids, life : Lives, id : 0 .. MaxId]
      BY <3>1, <3>2
    <3>4. waiting' = waiting \cup {[mid |-> mids', life |-> p.data, id |-> p.id]}
      BY <2>2 DEF Accept
    <3>5. waiting' \subseteq [mid : 1 .. MaxMids, life : Lives, id : 0 .. MaxId]
      BY <3>3, <3>4 DEF MosquittoTyped
    <3> QED
      BY <2>1, <2>2, <3>2, <3>5 DEF MosquittoTyped
  <2> QED
    BY <1>1, <2>1, <2>2
<1>4. CASE PublishCallback
  <2>1. PICK w \in waiting :
          /\ waiting' = waiting \ {w} /\ stored' = stored \cup {[life |-> w.life, id |-> w.id]}
          /\ mids' = mids /\ pending' = pending /\ brokersubs' = brokersubs
    BY <1>4 DEF PublishCallback, topicVars
  <2>2. [life |-> w.life, id |-> w.id] \in Publications
    BY DEF MosquittoTyped, Publications
  <2> QED
    BY <2>1, <2>2 DEF MosquittoTyped
<1>5. CASE GatewayManage
  BY <1>1, <1>5 DEF GatewayManage, GatewayLost, GatewayWrite, GatewayResend, GatewayGiveUp, GatewayIdle,
                    topicVars, publishVars
<1>6. CASE GatewayRestart
  BY <1>6, MaxMidsAssumption DEF GatewayRestart, MosquittoTyped
<1>7. CASE ReceiveSubscribe /\ UNCHANGED <<waiting, stored>>
  <2>1. PICK p, topics, i :
          /\ p \in DOMAIN toGateway /\ p.type = "SUBSCRIBE"
          /\ \/ UNCHANGED <<mids, waiting, pending, stored, brokersubs>>
             \/ SubscribeTo(p, topics, i)
    BY <1>7 DEF ReceiveSubscribe, Handle, SubscribeFails, ToGateway, BagToSet, TurnAway, gatewayVars,
                topicVars, publishVars
  <2>2. CASE SubscribeTo(p, topics, i)
    <3>1. p.name \in TopicNames
      BY <2>1 DEF PacketsTyped, PacketToGateway, Meant
    <3>2. mids' \in 0 .. MaxMids /\ mids' \in 1 .. MaxMids
      BY <2>2, MaxMidsAssumption DEF SubscribeTo, MosquittoTyped
    <3>3. pending' \in {pending, pending \cup {mids'}} /\ brokersubs' = brokersubs \cup {p.name}
      BY <2>2 DEF SubscribeTo
    <3> QED
      BY <1>7, <3>1, <3>2, <3>3 DEF MosquittoTyped
  <2> QED
    BY <1>1, <2>1, <2>2
<1>8. CASE (ReceiveTopic \/ ReceiveTopicAck \/ ReceiveDelivered \/ ReceiveRecorded \/ ReceiveCompleted)
             /\ UNCHANGED <<waiting, stored>>
  BY <1>1, <1>8 DEF ReceiveTopic, ReceiveTopicAck, ReceiveDelivered, ReceiveRecorded, ReceiveCompleted,
                    Handle, TurnAway, gatewayVars, topicVars, publishVars
<1>9. CASE SubscribeCallback
  BY <1>9 DEF SubscribeCallback, topicVars, MosquittoTyped
<1>10. CASE MessageCallback \/ MessageTail
  BY <1>1, <1>10 DEF MessageCallback, MessageTail, publishVars
<1> QED
  BY <1>2, <1>3, <1>4, <1>5, <1>6, <1>7, <1>8, <1>9, <1>10
     DEF GatewayNext, GatewayTopicsNext, GatewayHandler, GatewayTopicsHandler

LEMMA NamedName ==
  ASSUME GatewayReady, NEW i \in 1 .. Len(gtopics), ~IsWildcard(gtopics[i])
  PROVE  gtopics[i].name \in Names
<1>1. gtopics[i] \in ATopic(0 .. MaxId)
  BY CollectionLength DEF GatewayReady
<1> QED
  BY <1>1 DEF ATopic, TopicNames, IsWildcard

LEMMA AnnouncedSteps ==
  ASSUME GatewayReady, AnnouncedTyped, GatewayNext \/ GatewayTopicsNext
  PROVE  AnnouncedTyped'
<1>1. Len(gtopics) \in Nat
  BY CollectionLength DEF GatewayReady
<1>2. CASE announced' = announced
  BY <1>2 DEF AnnouncedTyped
<1>3. CASE GatewayHandler \/ PublishCallback \/ GatewayRestart
  <2>1. announced' \in {announced, {}}
    BY <1>3 DEF GatewayHandler, ReceiveConnect, ReceiveWilltopic, ReceiveWillmsg, ReceiveDisconnect,
                ReceiveSearchgw, ReceivePublish, ReceivePubrel, TurnAway, gatewayVars, topicVars,
                PublishCallback, GatewayRestart
  <2> QED
    BY <2>1 DEF AnnouncedTyped
<1>4. CASE GatewayManage
  <2>1. \/ announced' = announced
        \/ /\ gtopics' = gtopics /\ giter' = FirstNamed(gtopics, 1) /\ giter' # 0
           /\ announced' = announced \cup {gtopics'[giter'].name}
    BY <1>4 DEF GatewayManage, GatewayLost, GatewayWrite, GatewayResend, GatewayGiveUp, GatewayIdle,
                topicVars, RegisterTopic
  <2>2. CASE /\ gtopics' = gtopics /\ giter' = FirstNamed(gtopics, 1) /\ giter' # 0
             /\ announced' = announced \cup {gtopics'[giter'].name}
    <3>1. giter' \in 1 .. Len(gtopics) /\ ~IsWildcard(gtopics[giter'])
      BY <1>1, <2>2, FirstNamedFound
    <3> QED
      BY <2>2, <3>1, NamedName DEF AnnouncedTyped
  <2> QED
    BY <1>2, <2>1, <2>2
<1>5. CASE ReceiveTopicAck
  <2>1. \/ announced' = announced
        \/ /\ gtopics' = gtopics /\ giter' = Following(gtopics, giter) /\ giter' # 0
           /\ announced' = announced \cup {gtopics'[giter'].name}
    BY <1>5 DEF ReceiveTopicAck, Handle, TurnAway, gatewayVars, topicVars, RegisterTopic
  <2>2. CASE /\ gtopics' = gtopics /\ giter' = Following(gtopics, giter) /\ giter' # 0
             /\ announced' = announced \cup {gtopics'[giter'].name}
    <3>1. giter' \in 1 .. Len(gtopics) /\ ~IsWildcard(gtopics[giter'])
      BY <1>1, <2>2, FollowingFound DEF GatewayReady
    <3> QED
      BY <2>2, <3>1, NamedName DEF AnnouncedTyped
  <2> QED
    BY <1>2, <2>1, <2>2
<1>6. CASE ReceiveTopic \/ ReceiveSubscribe \/ ReceiveDelivered \/ ReceiveRecorded \/ ReceiveCompleted
  BY <1>2, <1>6 DEF ReceiveTopic, ReceiveSubscribe, ReceiveDelivered, ReceiveRecorded, ReceiveCompleted,
                    Handle, TurnAway, gatewayVars, topicVars
<1>7. CASE SubscribeCallback
  BY <1>2, <1>7 DEF SubscribeCallback, topicVars
<1>8. CASE MessageCallback
  <2>1. PICK name \in Names :
           \/ announced' = announced
           \/ /\ giter' = FirstMatch(gtopics, name) /\ giter' # 0
              /\ DoPublishTopic(giter', name)
    BY <1>8 DEF MessageCallback, FirstMatch
  <2>2. CASE /\ giter' = FirstMatch(gtopics, name) /\ giter' # 0
             /\ DoPublishTopic(giter', name)
    <3> DEFINE qos == gtopics[giter'].qos
               topics == AddTopic(gtopics, name, 0)
               j == Len(topics)
    <3>1. \/ announced' = announced
          \/ /\ ByName(gtopics, name) = 0
             /\ gtopics' = [topics EXCEPT ![j].qos = qos]
             /\ announced' \in {announced, announced \cup {gtopics'[j].name}}
      BY <2>2 DEF DoPublishTopic, DeliverKnown, DeliverNew, RegisterTopic
    <3>2. topics = AddTopic(gtopics, name, 0)
      OBVIOUS
    <3>3. giter' \in 1 .. Len(gtopics)
      BY <1>1, <2>2, MatchFound
    <3>4. qos \in 0 .. 2
      BY <3>3, CollectionLength DEF GatewayReady, ATopic
    <3> HIDE DEF qos, topics
    <3>5. CASE /\ ByName(gtopics, name) = 0
               /\ gtopics' = [topics EXCEPT ![j].qos = qos]
      <4>1. /\ j \in DOMAIN gtopics' /\ Named(gtopics'[j])
        BY <3>2, <3>4, <3>5, NewlyNamed
      <4>2. topics \in Collections(0 .. MaxId) /\ topics[j].name = name /\ j \in 1 .. j
        <5>1. name \in TopicNames /\ 0 \in 0 .. MaxId
          BY DEF TopicNames
        <5> QED
          BY <3>2, <3>5, <5>1, AddTopicGrows DEF GatewayReady
      <4>3. topics[j] \in ATopic(0 .. MaxId) /\ j \in DOMAIN topics
        BY <4>2, CollectionLength
      <4>4. gtopics'[j] = [topics[j] EXCEPT !.qos = qos]
        BY <3>5, <4>2, <4>3, CollectionsAre
      <4>5. gtopics'[j].name = name
        BY <4>2, <4>3, <4>4 DEF ATopic
      <4> QED
        BY <3>1, <4>5 DEF AnnouncedTyped
    <3> QED
      BY <1>2, <3>1, <3>5
  <2> QED
    BY <1>2, <2>1, <2>2
<1>9. CASE MessageTail
  BY <1>2, <1>9 DEF MessageTail
<1> QED
  BY <1>3, <1>4, <1>5, <1>6, <1>7, <1>8, <1>9 DEF GatewayNext, GatewayTopicsNext, GatewayTopicsHandler

LEMMA BrokerTypedStep ==
  ASSUME BrokerTyped, \A i \in Places : gring.place[i].data \in MessageNumbers, BrokerStep
  PROVE  BrokerTyped'
<1>1. messages' \in MessageNumbers
  BY MaxMessagesAssumption DEF BrokerTyped, BrokerStep, MessageNumbers
<1>2. confirmed' \subseteq MessageNumbers
  BY DEF BrokerTyped, BrokerStep
<1> QED
  BY <1>1, <1>2 DEF BrokerTyped
----------------------------------------------------------------------------
LEMMA PacketFields ==
  ASSUME NEW types, NEW type \in types, NEW id \in 0 .. MaxId, NEW qos \in 0 .. 2, NEW data \in Numbers,
         NEW tid \in TopicIds, NEW name \in AnyName
  PROVE  PacketAbout(type, id, qos, data, tid, name) \in Packets(types)
BY DEF PacketAbout, Packets

(* The packets of both sides have their types, as the messages they carry.    *)
LEMMA ResentTyped ==
  ASSUME NEW m, MessageToClient(m), HasContent(m)
  PROVE  PacketToClient(Resent(m))
<1>1. /\ m.type \in ToClientTypes /\ m.data \in MessageNumbers /\ m.tid \in TopicIds
      /\ m.name \in AnyName /\ m.id \in 0 .. MaxId /\ m.qos \in 0 .. 2 /\ Told(m)
  BY DEF MessageToClient, TypedMessage, HasContent
<1> DEFINE id == IF m.type \in {"WILLTOPICREQ", "WILLMSGREQ"} THEN 0 ELSE m.id
           qos == IF m.type = "PUBLISH" THEN m.qos ELSE 0
           tid == IF m.type \in {"PUBLISH", "REGISTER", "SUBACK"} THEN m.tid ELSE 0
           x == PacketAbout(m.type, id, qos, m.data, tid, m.name)
<1>2. x = Resent(m)
  BY DEF Resent
<1>3. id \in 0 .. MaxId /\ qos \in 0 .. 2 /\ m.data \in Numbers /\ tid \in TopicIds
  BY <1>1, Zeros
<1>4. x.type = m.type /\ x.name = m.name /\ x.data = m.data
  BY DEF PacketAbout
<1> HIDE DEF id, qos, tid
<1>5. x \in Packets(ToClientTypes)
  BY <1>1, <1>3, PacketFields
<1> HIDE DEF x
<1>6. Told(x)
  BY <1>1, <1>4 DEF Told
<1> QED
  BY <1>2, <1>5, <1>6 DEF PacketToClient

LEMMA CachedTyped ==
  ASSUME NEW m, MessageToGateway(m), HasContent(m)
  PROVE  PacketToGateway(Cached(m))
<1>1. /\ m.type \in ToGatewayTypes /\ m.data \in Numbers /\ m.tid \in TopicIds
      /\ m.name \in AnyName /\ m.id \in 0 .. MaxId /\ m.qos \in 0 .. 2 /\ Meant(m)
  BY DEF MessageToGateway, TypedMessage, HasContent
<1> DEFINE id == IF m.type \in Numbered THEN m.id ELSE 0
           qos == IF m.type \in {"PUBLISH", "SUBSCRIBE"} THEN m.qos ELSE 0
           tid == IF m.type = "PUBLISH" THEN m.tid ELSE 0
           x == PacketAbout(m.type, id, qos, m.data, tid, m.name)
<1>2. x = Cached(m)
  BY DEF Cached
<1>3. id \in 0 .. MaxId /\ qos \in 0 .. 2 /\ tid \in TopicIds
  BY <1>1, Zeros
<1>4. x.type = m.type /\ x.name = m.name /\ x.data = m.data
  BY DEF PacketAbout
<1> HIDE DEF id, qos, tid
<1>5. x \in Packets(ToGatewayTypes)
  BY <1>1, <1>3, PacketFields
<1> HIDE DEF x
<1>6. Meant(x)
  BY <1>1, <1>4 DEF Meant
<1> QED
  BY <1>2, <1>5, <1>6 DEF PacketToGateway

(* An answer has a message id, a code, and the id of a topic.                 *)
LEMMA AnswerToClient ==
  ASSUME NEW type \in ToClientTypes, type # "REGISTER", type # "PUBLISH",
         NEW id \in 0 .. MaxId, NEW code \in 0 .. 3, NEW tid \in TopicIds
  PROVE  PacketToClient(PacketAbout(type, id, 0, code, tid, ""))
<1> DEFINE x == PacketAbout(type, id, 0, code, tid, "")
<1>1. x.type = type
  BY DEF PacketAbout
<1>2. 0 \in 0 .. 2 /\ code \in Numbers /\ "" \in AnyName
  BY Zeros
<1>3. PICK z, e : z = 0 /\ e = "" /\ x = PacketAbout(type, id, z, code, tid, e)
  OBVIOUS
<1> HIDE DEF x
<1>4. x \in Packets(ToClientTypes)
  BY <1>2, <1>3, PacketFields
<1> QED
  BY <1>1, <1>4 DEF PacketToClient, Told, x

LEMMA AnswerToGateway ==
  ASSUME NEW type \in {"REGACK", "PUBACK", "PUBCOMP"}, NEW id \in 0 .. MaxId, NEW code \in 0 .. 3
  PROVE  PacketToGateway(Packet(type, id, 0, code))
<1> DEFINE x == Packet(type, id, 0, code)
<1>1. x.type = type /\ type \in ToGatewayTypes
  BY DEF Packet, PacketAbout, ToGatewayTypes
<1>2. 0 \in 0 .. 2 /\ code \in Numbers /\ "" \in AnyName /\ 0 \in TopicIds
  BY Zeros
<1>3. PICK z, t, e : z = 0 /\ t = 0 /\ e = "" /\ x = PacketAbout(type, id, z, code, t, e)
  BY DEF Packet
<1> DEFINE types == ToGatewayTypes
<1> HIDE DEF x
<1>4. x \in Packets(ToGatewayTypes)
  <2>1. z \in 0 .. 2 /\ t \in TopicIds /\ e \in AnyName
    BY <1>2, <1>3
  <2>2. type \in types
    BY <1>1
  <2> HIDE DEF types
  <2>3. x \in Packets(types)
    BY <1>2, <1>3, <2>1, <2>2, PacketFields
  <2> QED
    BY <2>3 DEF types
<1>5. Meant(x)
  BY <1>1 DEF Meant
<1>6. PacketToGateway(x)
  BY <1>4, <1>5 DEF PacketToGateway
<1> QED
  BY <1>6 DEF x

LEMMA CodesToClient ==
  ASSUME NEW type \in {"PUBACK", "PUBCOMP", "SUBACK", "REGACK", "CONNACK", "DISCONNECT", "GWINFO"},
         NEW id \in 0 .. MaxId, NEW code \in 0 .. 3
  PROVE  PacketToClient(Packet(type, id, 0, code))
<1>1. type \in ToClientTypes /\ type # "REGISTER" /\ type # "PUBLISH"
  BY DEF ToClientTypes
<1>2. PICK z : z = 0 /\ Packet(type, id, 0, code) = PacketAbout(type, id, 0, code, z, "")
  BY DEF Packet
<1>3. z \in TopicIds
  BY <1>2, Zeros
<1> QED
  BY <1>1, <1>2, <1>3, AnswerToClient

LEMMA SaidTyped ==
  ASSUME PacketsTyped, \A i \in Places : MessageToClient(gring.place[i]),
         gtopics' \in Collections(0 .. MaxId), NEW x, SaidToClient(x)
  PROVE  PacketToClient(x)
<1>1. /\ \A p \in DOMAIN toGateway : p.id \in 0 .. MaxId
      /\ \A i \in Places : gring.place[i].id \in 0 .. MaxId
  BY DEF PacketsTyped, PacketToGateway, Packets, MessageToClient, TypedMessage
<1>2. 0 \in 0 .. 3 /\ 1 \in 0 .. 3 /\ 2 \in 0 .. 3 /\ 0 \in 0 .. MaxId
  OBVIOUS
<1>3. ASSUME NEW i \in Places, HasContent(gring.place[i]), x = Resent(gring.place[i])
      PROVE  PacketToClient(x)
  BY <1>3, ResentTyped
<1>4. ASSUME NEW i \in Places, x = Packet("PUBACK", gring.place[i].id, 0, 0)
      PROVE  PacketToClient(x)
  <2>1. PICK t, id, c : x = Packet(t, id, 0, c) /\ t = "PUBACK" /\ c = 0 /\ id = gring.place[i].id
    BY <1>4
  <2> QED
    BY <1>1, <1>2, <2>1, CodesToClient
<1>5. ASSUME NEW type \in {"CONNACK", "DISCONNECT", "GWINFO"}, x = Plain(type)
      PROVE  PacketToClient(x)
  <2>1. PICK id, c : x = Packet(type, id, 0, c) /\ c = 0 /\ id = 0
    BY <1>5 DEF Plain
  <2> QED
    BY <1>2, <2>1, CodesToClient
<1>6. ASSUME NEW p \in DOMAIN toGateway, SaidOf(x, p)
      PROVE  PacketToClient(x)
  <2>1. CASE \E type \in {"PUBACK", "PUBCOMP", "SUBACK"}, code \in 0 .. 3 : x = Packet(type, p.id, 0, code)
    BY <1>1, <2>1, CodesToClient
  <2>2. CASE \E j \in DOMAIN gtopics', type \in {"REGACK", "SUBACK"} :
               x = PacketAbout(type, p.id, 0, 0, gtopics'[j].id, "")
    <3>1. PICK j \in DOMAIN gtopics', type \in {"REGACK", "SUBACK"} :
               x = PacketAbout(type, p.id, 0, 0, gtopics'[j].id, "")
      BY <2>2
    <3>2. gtopics'[j].id \in TopicIds
      BY <3>1, CollectionLength DEF ATopic
    <3>3. type \in ToClientTypes /\ type # "REGISTER" /\ type # "PUBLISH"
      BY DEF ToClientTypes
    <3>4. PICK id, c, t : x = PacketAbout(type, id, 0, c, t, "") /\ c = 0 /\ id = p.id /\ t = gtopics'[j].id
      BY <3>1
    <3> QED
      BY <1>1, <1>2, <3>2, <3>3, <3>4, AnswerToClient
  <2>3. 1 \in {1, 2} /\ 2 \in {1, 2} /\ {1, 2} \subseteq 0 .. 3
    OBVIOUS
  <2> QED
    BY <1>2, <1>6, <2>1, <2>2, <2>3, Zenon DEF SaidOf
<1> QED
  BY <1>3, <1>4, <1>5, <1>6 DEF SaidToClient

LEMMA ToldTyped ==
  ASSUME PacketsTyped, \A i \in Places : MessageToGateway(cring.place[i]),
         NEW x, ToldToGateway(x)
  PROVE  PacketToGateway(x)
<1>1. \A p \in DOMAIN toClient : p.id \in 0 .. MaxId
  BY DEF PacketsTyped, PacketToClient, Packets
<1>2. 0 \in 0 .. 3 /\ 0 .. 2 \subseteq 0 .. 3
  OBVIOUS
<1>3. ASSUME NEW i \in Places, HasContent(cring.place[i]), x = Cached(cring.place[i])
      PROVE  PacketToGateway(x)
  BY <1>3, CachedTyped
<1>4. ASSUME NEW p \in DOMAIN toClient, ReplyTo(x, p)
      PROVE  PacketToGateway(x)
  <2>1. \E type \in {"REGACK", "PUBACK", "PUBCOMP"}, code \in 0 .. 3 : x = Packet(type, p.id, 0, code)
    BY <1>2, <1>4, Zenon DEF ReplyTo
  <2> QED
    BY <1>1, <2>1, AnswerToGateway
<1> QED
  BY <1>3, <1>4 DEF ToldToGateway

LEMMA PacketsKept ==
  ASSUME PacketsTyped,
         \/ /\ SayStep /\ gtopics' \in Collections(0 .. MaxId)
            /\ \A i \in Places : MessageToClient(gring.place[i])
         \/ TellStep /\ \A i \in Places : MessageToGateway(cring.place[i])
  PROVE  PacketsTyped'
<1>1. CASE /\ SayStep /\ gtopics' \in Collections(0 .. MaxId)
           /\ \A i \in Places : MessageToClient(gring.place[i])
  <2>1. \A x \in DOMAIN toClient' : PacketToClient(x)
    BY <1>1, SaidTyped DEF SayStep, PacketsTyped
  <2>2. \A x \in DOMAIN toGateway' : PacketToGateway(x)
    BY <1>1 DEF SayStep, PacketsTyped
  <2> QED
    BY <2>1, <2>2 DEF PacketsTyped, PacketToClient, PacketToGateway, Packets, Told, Meant
<1>2. CASE TellStep /\ \A i \in Places : MessageToGateway(cring.place[i])
  <2>1. \A x \in DOMAIN toGateway' : PacketToGateway(x)
    BY <1>2, ToldTyped DEF TellStep, PacketsTyped
  <2>2. \A x \in DOMAIN toClient' : PacketToClient(x)
    BY <1>2 DEF TellStep, PacketsTyped
  <2> QED
    BY <2>1, <2>2 DEF PacketsTyped, PacketToClient, PacketToGateway, Packets, Told, Meant
<1> QED
  BY <1>1, <1>2

(* The client's own variables.                                                *)
CallsTyped == made \in [Calls -> Nat] /\ \A c \in Calls : made[c] \in 0 .. Budget[c]
ClientTyped ==
  /\ cstate \in States
  /\ cwill \in Wills \cup {0}
  /\ csleep \in BOOLEAN /\ gwactive \in BOOLEAN
  /\ reported \subseteq Publications
ReceivedTyped == received \subseteq [topic : TopicNames, payload : Names, number : MessageNumbers]

LEMMA CallsSteps ==
  ASSUME CallsTyped, ClientNext \/ ClientTopicsNext
  PROVE  CallsTyped'
<1>1. made' = made \/ \E c \in Calls : Count(c)
  BY DEF ClientNext, ClientTopicsNext, Connect, Disconnect, Publish, Searchgw, ClientRestart, ClientManage,
         ClientLost, ClientWrite, ClientResend, ClientGiveUp, ClientIdle, ClientHandler, ClientTakes,
         ReceiveConnack, ReceiveWilltopicreq, ReceiveWillmsgreq, ReceiveClientDisconnect,
         ReceiveGwinfo, ReceivePuback, ReceivePubrec, ReceivePubcomp, Register, Subscribe,
         ClientTopicsHandler, ReceiveRegister, ReceiveRegack, ReceiveSuback, ReceiveDelivery,
         AcceptDelivery, RefuseDelivery, ReceiveDeliveryPubrel, Ignored, ClientAnswers, Calls
<1>2. CASE made' = made
  BY <1>2 DEF CallsTyped
<1>3. ASSUME NEW c \in Calls, Count(c)
      PROVE  CallsTyped'
  BY <1>3 DEF Count, CallsTyped
<1> QED
  BY <1>1, <1>2, <1>3

LEMMA ClientTypedSteps ==
  ASSUME ClientTyped, CallsTyped, \A x \in DOMAIN toClient : x.id \in 0 .. MaxId,
         ClientNext \/ ClientTopicsNext
  PROVE  ClientTyped'
<1>1. \A id \in 0 .. MaxId : Publication(made["restart"], id) \in Publications
  BY DEF Publication, Publications, CallsTyped, Lives, Calls
<1>2. CASE Connect \/ Disconnect \/ Publish \/ Searchgw \/ ClientRestart
  BY <1>2 DEF Connect, Disconnect, Publish, Searchgw, ClientRestart, ClientTyped, States
<1>3. CASE ClientManage
  <2>1. cstate' \in {cstate, "disconnected"} /\ cwill' = cwill /\ csleep' = csleep
        /\ gwactive' \in {gwactive, FALSE} /\ reported' = reported
    BY <1>3 DEF ClientManage, ClientLost, ClientWrite, ClientResend, ClientGiveUp, ClientIdle
  <2> QED
    BY <2>1 DEF ClientTyped, States
<1>4. CASE ClientHandler
  <2>1. cwill' = cwill
    BY <1>4 DEF ClientHandler, ReceiveConnack, ReceiveWilltopicreq, ReceiveWillmsgreq, ClientTakes,
                ReceiveClientDisconnect, ReceiveGwinfo, ReceivePuback, ReceivePubrec, ReceivePubcomp
  <2>2. cstate' \in States
    BY <1>4 DEF ClientHandler, ReceiveConnack, ReceiveWilltopicreq, ReceiveWillmsgreq, AnswerWith,
                NoActiveMessage, ReceiveClientDisconnect, ReceiveGwinfo, ReceivePuback, ReceivePubrec,
                ReceivePubcomp, ClientTyped, States
  <2>3. csleep' \in BOOLEAN /\ gwactive' \in BOOLEAN
    <3>1. (csleep' = csleep \/ ReceiveClientDisconnect) /\ gwactive' \in {gwactive, TRUE}
      BY <1>4 DEF ClientHandler, ReceiveConnack, ReceiveWilltopicreq, ReceiveWillmsgreq,
                  ReceiveClientDisconnect, ReceiveGwinfo, ReceivePuback, ReceivePubrec, ReceivePubcomp
    <3>2. ReceiveClientDisconnect => csleep' \in BOOLEAN
      BY DEF ReceiveClientDisconnect
    <3> QED
      BY <3>1, <3>2 DEF ClientTyped
  <2>4. reported' \subseteq Publications
    <3>1. \/ reported' = reported
          \/ \E p \in DOMAIN toClient : \E success : Report(success, p.id)
      BY <1>4 DEF ClientHandler, ReceiveConnack, ReceiveWilltopicreq, ReceiveWillmsgreq, ToClient, BagToSet,
                  ReceiveClientDisconnect, ReceiveGwinfo, ReceivePuback, ReceivePubrec, ReceivePubcomp
    <3>2. \A p \in DOMAIN toClient : p.id \in 0 .. MaxId
      OBVIOUS
    <3> QED
      BY <1>1, <3>1, <3>2 DEF Report, ClientTyped
  <2> QED
    BY <2>1, <2>2, <2>3, <2>4 DEF ClientTyped
<1>5. CASE ClientTopicsNext
  BY <1>5 DEF ClientTopicsNext, ClientTopicsHandler, Register, Subscribe,
         ReceiveRegister, ReceiveRegack, ReceiveSuback, ReceiveDelivery,
         AcceptDelivery, RefuseDelivery, ReceiveDeliveryPubrel, Ignored, ClientAnswers, ClientTakes,
         ClientTyped
<1> QED
  BY <1>2, <1>3, <1>4, <1>5 DEF ClientNext

LEMMA ReceivedSteps ==
  ASSUME ReceivedTyped, HearStep, ctopics \in Collections(0 .. MaxId),
         \A x \in DOMAIN toClient : Told(x)
  PROVE  ReceivedTyped'
<1>1. CASE received' = received
  BY <1>1 DEF ReceivedTyped
<1>2. ASSUME NEW p \in DOMAIN toClient, NEW i \in DOMAIN ctopics, p.type = "PUBLISH",
             received' = received \cup
               {[topic |-> ctopics[i].name, payload |-> p.name, number |-> p.data]}
      PROVE  ReceivedTyped'
  <2>1. ctopics[i].name \in TopicNames
    BY CollectionLength DEF ATopic
  <2>2. p.name \in Names /\ p.data \in MessageNumbers
    BY <1>2 DEF Told
  <2>3. [topic |-> ctopics[i].name, payload |-> p.name, number |-> p.data]
          \in [topic : TopicNames, payload : Names, number : MessageNumbers]
    BY <2>1, <2>2
  <2> QED
    BY <1>2, <2>3 DEF ReceivedTyped
<1> QED
  BY <1>1, <1>2 DEF HearStep

(* All of it. The invariant is the types and what they rest on.               *)
TypedRing(r, Typed(_)) ==
  IsRing(r) /\ r.last \in 0 .. MaxId /\ \A i \in Places : Typed(r.place[i])
ClientSide ==
  /\ ClientTyped /\ CallsTyped /\ ReceivedTyped
  /\ ctopics \in Collections(0 .. MaxId)
  /\ TypedRing(cring, MessageToGateway)
GatewaySide ==
  /\ RecordTyped /\ MosquittoTyped /\ BrokerTyped /\ AnnouncedTyped
  /\ gtopics \in Collections(0 .. MaxId) /\ giter \in 0 .. Len(gtopics)
  /\ TypedRing(gring, MessageToClient)
(* The message whose callback has lost the lock.                              *)
HandingTyped ==
  /\ handing \in [tid : TopicIds, name : AnyName, qos : 0 .. 2, number : 0 .. messages]
  /\ NotInCallback \/ (handing.name \in Names /\ handing.number \in 1 .. messages)
TypedInv == ClientSide /\ GatewaySide /\ HandingTyped /\ PacketsTyped

LEMMA HandingTypedStep ==
  ASSUME HandingTyped, messages \in Nat, HandingStep
  PROVE  HandingTyped'
<1>1. /\ NoMessage \in [tid : TopicIds, name : AnyName, qos : 0 .. 2, number : 0 .. messages']
      /\ messages' \in Nat /\ messages' \in {messages, messages + 1}
  <2>1. messages' \in {messages, messages + 1}
    BY DEF HandingStep
  <2>2. 0 \in 0 .. messages' /\ messages' \in Nat
    BY <2>1
  <2> QED
    BY <2>1, <2>2, Zeros DEF NoMessage
<1>2. CASE handing' = handing
  <2>1. 0 .. messages \subseteq 0 .. messages' /\ 1 .. messages \subseteq 1 .. messages'
    BY <1>1
  <2>2. handing' \in [tid : TopicIds, name : AnyName, qos : 0 .. 2, number : 0 .. messages']
    BY <1>2, <2>1 DEF HandingTyped
  <2> QED
    BY <1>2, <2>1, <2>2 DEF HandingTyped, NotInCallback
<1>3. CASE handing' = NoMessage
  BY <1>1, <1>3 DEF HandingTyped, NotInCallback
<1>4. ASSUME messages' = messages + 1, NEW tid \in TopicIds, NEW name \in Names, NEW qos \in 0 .. 2,
             handing' = [tid |-> tid, name |-> name, qos |-> qos, number |-> messages']
      PROVE  HandingTyped'
  <2>1. messages' \in 0 .. messages' /\ messages' \in 1 .. messages'
    <3>1. messages' = messages + 1
      BY <1>4
    <3> QED
      BY <3>1
  <2>2. name \in AnyName
    BY Zeros, Zenon
  <2> QED
    BY <1>4, <2>1, <2>2 DEF HandingTyped
<1>5. ASSUME ~NotInCallback, messages' = messages, NEW tid \in TopicIds,
             handing' = [handing EXCEPT !.tid = tid]
      PROVE  HandingTyped'
  BY <1>5 DEF HandingTyped
<1> QED
  BY <1>2, <1>3, <1>4, <1>5 DEF HandingStep

LEMMA TypedReady ==
  ASSUME TypedInv
  PROVE  GatewayReady /\ ClientReady
<1>1. /\ IsRing(gring) /\ \A i \in Places : MessageToClient(gring.place[i])
      /\ IsRing(cring) /\ \A i \in Places : MessageToGateway(cring.place[i])
      /\ cring.last \in 0 .. MaxId
  BY DEF TypedInv, ClientSide, GatewaySide, TypedRing
<1>2. \A i \in Places : /\ gring.place[i].qos \in 0 .. 2
                        /\ cring.place[i].sent => HasContent(cring.place[i])
                        /\ cring.place[i].qos \in 0 .. 2
  BY <1>1 DEF MessageToClient, MessageToGateway, TypedMessage, Tries
<1>3. \A x \in DOMAIN toGateway :
        /\ x.id \in 0 .. MaxId /\ x.qos \in 0 .. 2
        /\ x.type \in {"REGISTER", "SUBSCRIBE"} => x.name \in TopicNames
  BY DEF TypedInv, PacketsTyped, PacketToGateway, Packets, Meant
<1>4. \A x \in DOMAIN toClient :
        /\ x.id \in 0 .. MaxId /\ x.tid \in TopicIds
        /\ x.type = "REGISTER" => x.name \in TopicNames
  BY DEF TypedInv, PacketsTyped, PacketToClient, Packets, Told
<1>5. (\A w \in waiting : w.mid # 0) /\ (\A mid \in pending : mid # 0)
  BY DEF TypedInv, GatewaySide, MosquittoTyped
<1>6. /\ gtopics \in Collections(0 .. MaxId) /\ giter \in 0 .. Len(gtopics)
      /\ ctopics \in Collections(0 .. MaxId)
  BY DEF TypedInv, ClientSide, GatewaySide
<1>7. /\ messages \in Nat /\ handing.tid \in TopicIds /\ handing.qos \in 0 .. 2
      /\ NotInCallback \/ (handing.name \in Names /\ handing.number \in 1 .. messages)
  BY MaxMessagesAssumption DEF TypedInv, HandingTyped, GatewaySide, BrokerTyped, MessageNumbers
<1> QED
  BY <1>1, <1>2, <1>3, <1>4, <1>5, <1>6, <1>7 DEF GatewayReady, ClientReady

LEMMA TypedType ==
  ASSUME TypedInv
  PROVE  TypeOK
<1>1. cring \in Rings(ToGatewayTypes, Numbers, {0}, TopicIds, AnyName)
  <2> DEFINE n == Numbers
             z == {0}
             t == TopicIds
             a == AnyName
             g == ToGatewayTypes
  <2>1. /\ IsRing(cring) /\ cring.last \in 0 .. MaxId
        /\ \A i \in Places : TypedMessage(cring.place[i], g, n, z, t, a)
    BY DEF TypedInv, ClientSide, TypedRing, MessageToGateway
  <2> HIDE DEF n, z, t, a, g
  <2>2. cring \in Rings(g, n, z, t, a)
    BY <2>1, RingsAre
  <2> QED
    BY <2>2 DEF n, z, t, a, g
<1>2. gring \in Rings(ToClientTypes, MessageNumbers, 0 .. MaxMids, TopicIds, AnyName)
  <2> DEFINE n == MessageNumbers
             z == 0 .. MaxMids
             t == TopicIds
             a == AnyName
             g == ToClientTypes
  <2>1. /\ IsRing(gring) /\ gring.last \in 0 .. MaxId
        /\ \A i \in Places : TypedMessage(gring.place[i], g, n, z, t, a)
    BY DEF TypedInv, GatewaySide, TypedRing, MessageToClient
  <2> HIDE DEF n, z, t, a, g
  <2>2. gring \in Rings(g, n, z, t, a)
    BY <2>1, RingsAre
  <2> QED
    BY <2>2 DEF n, z, t, a, g
<1>3. BagToSet(toGateway) \subseteq Packets(ToGatewayTypes) /\ BagToSet(toClient) \subseteq Packets(ToClientTypes)
  BY DEF TypedInv, PacketsTyped, PacketToGateway, PacketToClient, BagToSet
<1> QED
  BY <1>1, <1>2, <1>3 DEF TypedInv, ClientSide, GatewaySide, ClientTyped, CallsTyped, ReceivedTyped,
     RecordTyped, MosquittoTyped, BrokerTyped, AnnouncedTyped, HandingTyped, TypeOK

LEMMA TypedInit == Init => TypedInv
<1> SUFFICES ASSUME Init PROVE TypedInv
  OBVIOUS
<1>1. /\ IsRing(EmptyRing) /\ EmptyRing.last = 0 /\ \A i \in Places : EmptyRing.place[i] = Blank
  BY EmptyRingFields DEF EmptyRing
<1>2. 0 \in 0 .. MaxId /\ 0 \in 0 .. MaxMids /\ 0 \in 0 .. MaxGatewayRestarts /\ 0 \in 0 .. MaxMessages
  BY MaxMidsAssumption, MaxGatewayRestartsAssumption, MaxMessagesAssumption
<1>3. ClientSide
  <2>1. ClientTyped /\ ReceivedTyped
    BY DEF Init, CInit, ClientTyped, ReceivedTyped, States
  <2>2. CallsTyped
    BY DEF Init, CInit, CallsTyped
  <2>3. TypedRing(cring, MessageToGateway)
    BY <1>1, <1>2, BlankTyped DEF Init, CInit, TypedRing
  <2>4. ctopics \in Collections(0 .. MaxId)
    <3>1. ctopics \in Seq(ATopic(0 .. MaxId))
      BY DEF Init, CInit
    <3> DEFINE nums == 0 .. MaxId
    <3>2. Collections(nums) = Seq(ATopic(nums))
      BY CollectionsAre
    <3> QED
      BY <3>1, <3>2
  <2> QED
    BY <2>1, <2>2, <2>3, <2>4 DEF ClientSide
<1>4. GatewaySide
  <2>1. RecordTyped
    <3>1. NoWill \in Wishes
      BY DEF NoWill, Wishes
    <3> QED
      BY <1>2, <3>1 DEF Init, GInit, RecordTyped, States
  <2>2. gtopics \in Collections(0 .. MaxId) /\ giter \in 0 .. Len(gtopics)
    <3>1. gtopics \in Collections(0 .. MaxId) /\ giter = 0
      BY KeptAssumption DEF Init, GInit
    <3>2. Len(gtopics) \in Nat
      BY <3>1, CollectionLength
    <3> QED
      BY <3>1, <3>2
  <2>3. MosquittoTyped
    <3>1. SubscribedNames(gtopics) \subseteq TopicNames
      BY <2>2, CollectionLength DEF SubscribedNames, ATopic
    <3> QED
      BY <1>2, <3>1 DEF Init, GInit, MosquittoTyped
  <2>4. BrokerTyped /\ AnnouncedTyped
    BY <1>2 DEF Init, GInit, BrokerTyped, AnnouncedTyped, MessageNumbers
  <2>5. TypedRing(gring, MessageToClient)
    <3>1. PICK n : n \in 0 .. MaxId /\ gring = [EmptyRing EXCEPT !.last = n]
      BY KeptAssumption DEF Init, GInit
    <3>2. IsRing(gring) /\ gring.last = n /\ \A i \in Places : gring.place[i] = Blank
      BY <3>1, InitialRing
    <3> QED
      BY <3>1, <3>2, BlankTyped DEF TypedRing
  <2> QED
    BY <2>1, <2>2, <2>3, <2>4, <2>5 DEF GatewaySide
<1>5. PacketsTyped
  BY NoPackets DEF Init, PacketsTyped
<1>6. HandingTyped
  <2>1. handing = NoMessage /\ messages = 0 /\ 0 \in 0 .. 0
    BY DEF Init, GInit
  <2>2. NoMessage \in [tid : TopicIds, name : AnyName, qos : 0 .. 2, number : 0 .. 0]
    BY <2>1, Zeros DEF NoMessage
  <2> QED
    BY <2>1, <2>2 DEF HandingTyped, NotInCallback
<1> QED
  BY <1>3, <1>4, <1>5, <1>6 DEF TypedInv

LEMMA TypedStep == TypedInv /\ [Next]_vars => TypedInv'
<1> SUFFICES ASSUME TypedInv, [Next]_vars PROVE TypedInv'
  OBVIOUS
<1>1. GatewayReady /\ ClientReady
  BY TypedReady
<1>2. /\ TypedRing(cring, MessageToGateway) /\ TypedRing(gring, MessageToClient)
      /\ ctopics \in Collections(0 .. MaxId) /\ gtopics \in Collections(0 .. MaxId)
      /\ ClientTyped /\ CallsTyped /\ ReceivedTyped
      /\ RecordTyped /\ MosquittoTyped /\ BrokerTyped /\ AnnouncedTyped /\ PacketsTyped
  BY DEF TypedInv, ClientSide, GatewaySide
<1>3. /\ \A x \in DOMAIN toClient : x.id \in 0 .. MaxId /\ Told(x)
      /\ \A x \in DOMAIN toGateway : PacketToGateway(x)
  BY <1>2 DEF PacketsTyped, PacketToClient, Packets
<1>4. CASE (ClientNext \/ ClientTopicsNext) /\ UNCHANGED <<gatewayVars, granted>>
  <2>1. ClientTyped' /\ CallsTyped' /\ ReceivedTyped'
    BY <1>1, <1>2, <1>3, <1>4, CallsSteps, ClientTypedSteps, ReceivedSteps, HearSteps
  <2>2. ctopics' \in Collections(0 .. MaxId)
    BY <1>1, <1>4, ListSteps DEF ListStep
  <2>3. TypedRing(cring', MessageToGateway)
    <3>1. OwnRingStep
      BY <1>1, <1>4, OwnRingSteps
    <3>2. made["restart"] \in Lives /\ cwill \in Wills \cup {0} /\ cring.last \in 0 .. MaxId
      BY <1>2 DEF CallsTyped, ClientTyped, TypedRing, Lives, Calls
    <3>3. cring'.last \in 0 .. MaxId
      <4>1. OwnId \in 0 .. MaxId /\ 0 \in 0 .. MaxId
        BY <3>2, NextIdType DEF OwnId
      <4> QED
        BY <3>1, <3>2, <4>1 DEF OwnRingStep
    <3>4. ASSUME NEW i \in Places
          PROVE  MessageToGateway(cring'.place[i])
      <4>1. MessageToGateway(cring.place[i])
        BY <1>2 DEF TypedRing
      <4> QED
        BY <1>3, <3>1, <3>2, <4>1, BecameTyped, AddedTyped DEF OwnRingStep
    <3> QED
      BY <3>1, <3>3, <3>4 DEF TypedRing, OwnRingStep
  <2>4. PacketsTyped'
    <3>1. TellStep
      BY <1>1, <1>4, TellSteps
    <3> QED
      BY <1>2, <3>1, PacketsKept DEF TypedRing
  <2>5. ClientSide'
    BY <2>1, <2>2, <2>3 DEF ClientSide, TypedRing
  <2>6. GatewaySide'
    BY <1>4 DEF TypedInv, GatewaySide, gatewayVars, topicVars, publishVars, RecordTyped, MosquittoTyped,
                BrokerTyped, AnnouncedTyped, TypedRing
  <2>7. HandingTyped'
    BY <1>4 DEF TypedInv, HandingTyped, NotInCallback, gatewayVars, topicVars
  <2> QED
    BY <2>4, <2>5, <2>6, <2>7 DEF TypedInv
<1>5. CASE (GatewayNext \/ GatewayTopicsNext) /\ UNCHANGED clientVars
  <2>9. HandingTyped'
    <3>1. HandingTyped /\ messages \in Nat
      BY <1>1 DEF TypedInv, GatewayReady
    <3> QED
      BY <1>1, <1>5, <3>1, HandingSteps, HandingTypedStep
  <2>1. RecordTyped' /\ MosquittoTyped' /\ AnnouncedTyped'
    BY <1>1, <1>2, <1>5, RecordSteps, MosquittoSteps, AnnouncedSteps
  <2>2. BrokerTyped'
    <3>1. \A i \in Places : gring.place[i].data \in MessageNumbers
      BY <1>2 DEF TypedRing, MessageToClient, TypedMessage
    <3>2. BrokerStep
      BY <1>5, BrokerSteps
    <3> QED
      BY <1>2, <3>1, <3>2, BrokerTypedStep
  <2>3. SayStep /\ TopicStep /\ RingStep
    BY <1>1, <1>5, SaySteps, RingSteps
  <2>4. gtopics' \in Collections(0 .. MaxId) /\ giter' \in 0 .. Len(gtopics')
    BY <2>3 DEF TopicStep
  <2>5. TypedRing(gring', MessageToClient)
    <3>1. gring.last \in 0 .. MaxId /\ mids' \in 0 .. MaxMids /\ messages' \in MessageNumbers
      BY <1>2, <2>1, <2>2 DEF TypedRing, MosquittoTyped, BrokerTyped
    <3>2. gring'.last \in 0 .. MaxId
      <4>1. NextId(gring.last) \in 0 .. MaxId /\ 0 \in 0 .. MaxId
        BY <3>1, NextIdType
      <4> QED
        BY <2>3, <3>1, <4>1 DEF RingStep
    <3>3. ASSUME NEW i \in Places
          PROVE  MessageToClient(gring'.place[i])
      <4>1. MessageToClient(gring.place[i])
        BY <1>2 DEF TypedRing
      <4> QED
        BY <1>3, <2>3, <2>4, <3>1, <4>1, TurnedTyped, NewTyped DEF RingStep
    <3> QED
      BY <2>3, <3>2, <3>3 DEF TypedRing, RingStep
  <2>6. PacketsTyped'
    BY <1>2, <2>3, <2>4, PacketsKept DEF TypedRing
  <2>7. GatewaySide'
    BY <2>1, <2>2, <2>4, <2>5 DEF GatewaySide, TypedRing
  <2>8. ClientSide'
    BY <1>5 DEF TypedInv, ClientSide, clientVars, ClientTyped, CallsTyped, ReceivedTyped, TypedRing
  <2> QED
    BY <2>6, <2>7, <2>8, <2>9 DEF TypedInv
<1>6. CASE UNCHANGED vars
  <2>1. ClientSide'
    BY <1>6 DEF TypedInv, vars, ClientSide, clientVars, ClientTyped, CallsTyped, ReceivedTyped, TypedRing
  <2>2. GatewaySide'
    BY <1>6 DEF TypedInv, vars, GatewaySide, gatewayVars, topicVars, publishVars, RecordTyped, MosquittoTyped,
                BrokerTyped, AnnouncedTyped, TypedRing
  <2>3. PacketsTyped'
    BY <1>2, <1>6 DEF vars, radioVars, PacketsTyped, PacketToClient, PacketToGateway, Packets, Told, Meant
  <2>4. HandingTyped'
    BY <1>6 DEF TypedInv, vars, HandingTyped, NotInCallback, gatewayVars, topicVars
  <2> QED
    BY <2>1, <2>2, <2>3, <2>4 DEF TypedInv
<1> QED
  BY <1>4, <1>5, <1>6 DEF Next

(* Every variable of client, gateway and radio keeps its type: every ring its *)
(* shape and its ids in 16 bits, every packet what its type says, every mid   *)
(* and every number its bound.                                                *)
THEOREM SessionTyped == Spec => []TypeOK
<1>1. Spec => []TypedInv
  BY TypedInit, TypedStep, PTL DEF Spec
<1>2. TypedInv => TypeOK
  BY TypedType
<1> QED
  BY <1>1, <1>2, PTL

----------------------------------------------------------------------------
(* The broker's messages. The gateway knows them by the ids of its ring, and  *)
(* an id stands for one message at a time as long as an id that is about to   *)
(* be given is out of use: it is that of no message of the broker in the      *)
(* ring, of none on its way and of no answer to one.                          *)
OutOfUse(id) ==
  /\ \A i \in Places : gring.place[i].data # 0 => gring.place[i].id # id
  /\ \A p \in DOMAIN toClient : p.type = "PUBLISH" => p.id # id
  /\ \A x \in DOMAIN toGateway : x.type \in {"PUBACK", "PUBCOMP"} => x.id # id
  /\ \A i \in Places : cring.place[i].ext => cring.place[i].id # id
FreeNumbers == OutOfUse(NextId(gring.last))

(* The gateway's own messages with that id carry a number of N, if any.       *)
Carry(r, id, N) ==
  \A i \in Places :
    LET m == r.place[i] IN ~m.ext /\ m.id = id /\ m.data # 0 => m.data \in N
CarriedInv ==
  /\ messages \in Nat
  /\ \A i \in Places :
       LET m == gring.place[i]
       IN /\ m.data \in 0 .. messages
          /\ ~m.ext /\ m.data # 0 => Carry(gring, m.id, {m.data})
          /\ m.type = "PUBLISH" => ~m.ext /\ m.data # 0
  /\ \A p \in DOMAIN toClient :
       p.type = "PUBLISH" => p.data \in 1 .. messages /\ Carry(gring, p.id, {p.data})
  /\ \A x \in DOMAIN toGateway : Receipt(x) => Carry(gring, x.id, Given)
  /\ \A i \in Places :
       /\ cring.place[i].ext => Carry(gring, cring.place[i].id, Given)
       /\ cring.place[i].type \notin {"PUBACK", "PUBCOMP"}

LEMMA CarriedClient ==
  ASSUME CarriedInv, ClientReady, ClientNext \/ ClientTopicsNext, UNCHANGED gatewayVars
  PROVE  CarriedInv'
<1>1. /\ OwnRingStep /\ TellStep /\ HearStep
  BY OwnRingSteps, TellSteps, HearSteps
<1>2. Given \subseteq Given'
  BY <1>1 DEF HearStep, Given
<1>3. gring' = gring /\ messages' = messages
  BY DEF gatewayVars, topicVars
<1>4. \A id : Carry(gring, id, Given) => Carry(gring', id, Given')
  BY <1>2, <1>3 DEF Carry
<1>5. \A id, n : Carry(gring, id, {n}) => Carry(gring', id, {n}) /\ (n \in Given' => Carry(gring', id, Given'))
  BY <1>3 DEF Carry
<1>6. \A p \in DOMAIN toClient' :
        p.type = "PUBLISH" => p.data \in 1 .. messages' /\ Carry(gring', p.id, {p.data})
  BY <1>1, <1>3, <1>5 DEF TellStep, CarriedInv
<1>7. ASSUME NEW x \in DOMAIN toGateway', Receipt(x)
      PROVE  Carry(gring', x.id, Given')
  <2>1. CASE x \in DOMAIN toGateway
    BY <1>4, <1>7, <2>1 DEF CarriedInv
  <2>2. ASSUME NEW i \in Places, x = Cached(cring.place[i])
        PROVE  FALSE
    <3>1. x.type = cring.place[i].type
      BY <2>2 DEF Cached, PacketAbout
    <3> QED
      BY <1>7, <3>1 DEF CarriedInv, Receipt
  <2>3. ASSUME NEW p \in DOMAIN toClient, ReplyTo(x, p)
        PROVE  Carry(gring', x.id, Given')
    <3>1. CASE p.type = "REGISTER" /\ x = Packet("REGACK", p.id, 0, 0)
      BY <1>7, <3>1 DEF Receipt, Packet, PacketAbout
    <3>2. ASSUME p.type = "PUBLISH", NEW code, x = Packet("PUBACK", p.id, 0, code),
                 code = 0 => p.data \in Given'
          PROVE  Carry(gring', x.id, Given')
      <4>1. x.type = "PUBACK" /\ x.id = p.id /\ x.data = code
        BY <3>2 DEF Packet, PacketAbout
      <4>2. p.data \in Given'
        BY <1>7, <3>2, <4>1 DEF Receipt
      <4>3. Carry(gring, p.id, {p.data})
        BY <3>2 DEF CarriedInv
      <4> QED
        BY <1>5, <4>1, <4>2, <4>3
    <3>3. ASSUME NEW i \in Places, cring.place[i].ext, cring.place[i].id = p.id,
                 x = Packet("PUBCOMP", p.id, 0, 0)
          PROVE  Carry(gring', x.id, Given')
      <4>1. x.id = p.id
        BY <3>3 DEF Packet, PacketAbout
      <4> QED
        BY <1>4, <3>3, <4>1 DEF CarriedInv
    <3> QED
      BY <2>3, <3>1, <3>2, <3>3 DEF ReplyTo
  <2> QED
    BY <1>1, <2>1, <2>2, <2>3 DEF TellStep, ToldToGateway
<1>8. ASSUME NEW i \in Places
      PROVE  /\ cring'.place[i].ext => Carry(gring', cring'.place[i].id, Given')
             /\ cring'.place[i].type \notin {"PUBACK", "PUBCOMP"}
  <2> DEFINE n == cring'.place[i]
             m == cring.place[i]
  <2>1. IsMessage(m) /\ (m.ext => Carry(gring, m.id, Given)) /\ m.type \notin {"PUBACK", "PUBCOMP"}
    BY DEF CarriedInv, ClientReady, IsRing
  <2>2. Became(n, m) \/ AddedMessage(n)
    BY <1>1 DEF OwnRingStep
  <2> HIDE DEF n, m
  <2>3. CASE Aged(n, m)
    <3>1. n.ext = m.ext /\ n.id = m.id /\ n.type = m.type
      BY <2>3 DEF Aged, Fields
    <3> QED
      BY <1>4, <2>1, <3>1 DEF n
  <2>4. CASE n = Blank \/ n = Reset(m)
    <3>1. ~n.ext /\ n.type = "none"
      BY <2>4, EmptyMessage
    <3> QED
      BY <3>1 DEF n
  <2>5. ASSUME NEW type \in {"WILLTOPIC", "WILLMSG", "PUBREL"}, NEW data, NEW activity,
               n = ReplaceWith(m, type, data, activity)
        PROVE  (n.ext => Carry(gring', n.id, Given')) /\ n.type \notin {"PUBACK", "PUBCOMP"}
    <3>1. n.ext = m.ext /\ n.id = m.id /\ n.type = type
      BY <2>1, <2>5 DEF ReplaceWith, IsMessage, Fields
    <3> QED
      BY <1>4, <2>1, <3>1
  <2>6. CASE AddedMessage(n)
    <3>1. CASE \E x \in DOMAIN toClient : x.type = "PUBLISH" /\ x.data \in Given' /\ n = Recording(x)
      <4>1. PICK x \in DOMAIN toClient : x.type = "PUBLISH" /\ x.data \in Given' /\ n = Recording(x)
        BY <3>1
      <4>2. n.id = x.id /\ n.type = "PUBREC"
        BY <4>1 DEF Recording
      <4>3. Carry(gring, x.id, {x.data})
        BY <4>1 DEF CarriedInv
      <4> QED
        BY <1>5, <4>1, <4>2, <4>3 DEF n
    <3>2. ASSUME NEW type, type \notin {"PUBACK", "PUBCOMP"}, NEW a, NEW tid, NEW name, NEW data, NEW qos,
                 NEW oneshot, n = Fresh(OwnId, a, type, tid, name, data, qos, oneshot)
          PROVE  ~n.ext /\ n.type \notin {"PUBACK", "PUBCOMP"}
      BY <3>2 DEF Fresh
    <3>3. \/ \E x \in DOMAIN toClient : x.type = "PUBLISH" /\ x.data \in Given' /\ n = Recording(x)
          \/ \E type \in {"REGISTER", "SUBSCRIBE", "CONNECT", "DISCONNECT", "SEARCHGW", "PUBLISH", "none"} :
              \E a, tid, name, data, qos, oneshot :
               n = Fresh(OwnId, a, type, tid, name, data, qos, oneshot)
      BY <2>6, Zenon DEF AddedMessage, AddedRequest
    <3>4. \A type \in {"REGISTER", "SUBSCRIBE", "CONNECT", "DISCONNECT", "SEARCHGW", "PUBLISH", "none"} :
            type \notin {"PUBACK", "PUBCOMP"}
      OBVIOUS
    <3> QED
      BY <3>1, <3>2, <3>3, <3>4 DEF n
  <2> QED
    BY <2>2, <2>3, <2>4, <2>5, <2>6 DEF Became, n
<1>9. \A i \in Places :
        LET m == gring'.place[i]
        IN /\ m.data \in 0 .. messages'
           /\ ~m.ext /\ m.data # 0 => Carry(gring', m.id, {m.data})
           /\ m.type = "PUBLISH" => ~m.ext /\ m.data # 0
  BY <1>3, <1>5 DEF CarriedInv
<1> QED
  BY <1>3, <1>6, <1>7, <1>8, <1>9 DEF CarriedInv

(* What a step makes of the number a message of the gateway carries.          *)
NumberKept(n, m) ==
  /\ n.data \in {0, m.data}
  /\ n.data # 0 => n.id = m.id /\ n.ext = m.ext
  /\ n.type = "PUBLISH" => m.type = "PUBLISH" /\ n.data = m.data /\ n.ext = m.ext
NumberGiven(n) ==
  \/ n.data = 0 /\ n.type # "PUBLISH"
  \/ HandedOver(n.data) /\ n.data \in 1 .. messages' /\ ~n.ext /\ n.id = NextId(gring.last)

LEMMA TurnedNumber ==
  ASSUME NEW m, IsMessage(m), NEW n, Turned(n, m)
  PROVE  NumberKept(n, m)
<1>1. CASE Aged(n, m)
  <2>1. n.data = m.data /\ n.id = m.id /\ n.ext = m.ext /\ n.type = m.type
    BY <1>1 DEF Aged, Fields
  <2> QED
    BY <2>1 DEF NumberKept
<1>2. CASE n = Blank \/ n = Reset(m)
  <2>1. n.data = 0 /\ n.type = "none"
    BY <1>2, EmptyMessage
  <2> QED
    BY <2>1 DEF NumberKept
<1>3. CASE n = ReplaceWith(m, "WILLMSGREQ", 0, "willmessage")
  <2>1. n.data = 0 /\ n.type = "WILLMSGREQ"
    BY <1>3 DEF ReplaceWith, IsMessage, Fields
  <2> QED
    BY <2>1 DEF NumberKept
<1>4. CASE n = ReplaceWith(m, "PUBREL", m.data, "publishing")
  <2>1. n.data = m.data /\ n.type = "PUBREL" /\ n.id = m.id /\ n.ext = m.ext
    BY <1>4 DEF ReplaceWith, IsMessage, Fields
  <2> QED
    BY <2>1 DEF NumberKept
<1>5. ASSUME NEW type \in {"PUBREC", "SUBACK"}, n = [m EXCEPT !.type = type]
      PROVE  NumberKept(n, m)
  <2>1. n.data = m.data /\ n.type = type /\ n.id = m.id /\ n.ext = m.ext
    BY <1>5 DEF IsMessage, Fields
  <2> QED
    BY <2>1 DEF NumberKept
<1> QED
  BY <1>1, <1>2, <1>3, <1>4, <1>5 DEF Turned

LEMMA NewNumber ==
  ASSUME NEW n, NewMessage(n)
  PROVE  NumberGiven(n)
<1>1. CASE Delivering(n)
  <2>1. PICK a, type, tid, name, number, qos, oneshot :
          /\ HandedOver(number) /\ number \in 1 .. messages'
          /\ n = Fresh(NextId(gring.last), a, type, tid, name, number, qos, oneshot)
    BY <1>1 DEF Delivering
  <2>2. n.data = number /\ n.id = NextId(gring.last) /\ ~n.ext
    BY <2>1 DEF Fresh
  <2> QED
    BY <2>1, <2>2 DEF NumberGiven
<1>2. CASE Telling(n)
  <2>1. \E id, a, tid, name, qos : n = Fresh(id, a, "REGISTER", tid, name, 0, qos, FALSE)
    BY <1>2 DEF Telling
  <2>2. n.data = 0 /\ n.type = "REGISTER"
    BY <2>1 DEF Fresh
  <2> QED
    BY <2>2 DEF NumberGiven
<1>3. CASE WaitingFor(n)
  <2>1. ASSUME NEW x, NEW a, NEW tid, NEW oneshot, n = Awaiting(x, a, tid, mids', oneshot)
        PROVE  n.data = 0 /\ n.type = "none"
    BY <2>1 DEF Awaiting
  <2>2. n.data = 0 /\ n.type = "none"
    BY <1>3, <2>1, Zenon DEF WaitingFor
  <2> QED
    BY <2>2 DEF NumberGiven
<1>4. CASE AsksWill(n)
  <2>1. PICK qos : n = Fresh(NextId(gring.last), "willtopic", "WILLTOPICREQ", 0, "", 0, qos, FALSE)
    BY <1>4 DEF AsksWill
  <2>2. n.data = 0 /\ n.type = "WILLTOPICREQ"
    BY <2>1 DEF Fresh
  <2> QED
    BY <2>2 DEF NumberGiven
<1>5. CASE GivenUp(n)
  <2>1. PICK qos : n = [Fresh(NextId(gring.last), "publishing", "none", 0, "", 0, qos, FALSE)
                          EXCEPT !.active = FALSE]
    BY <1>5 DEF GivenUp
  <2>2. n.data = 0 /\ n.type = "none"
    BY <2>1 DEF Fresh
  <2> QED
    BY <2>2 DEF NumberGiven
<1> QED
  BY <1>1, <1>2, <1>3, <1>4, <1>5 DEF NewMessage

(* An id that is in use carries the same numbers after a step.                *)
LEMMA CarriedOn ==
  ASSUME RingStep, GatewayReady, FreeNumbers, NEW id, NEW N, Carry(gring, id, N), id # NextId(gring.last)
  PROVE  Carry(gring', id, N)
<1> SUFFICES ASSUME NEW i \in Places, ~gring'.place[i].ext, gring'.place[i].id = id, gring'.place[i].data # 0
             PROVE  gring'.place[i].data \in N
  BY DEF Carry
<1> DEFINE n == gring'.place[i]
           m == gring.place[i]
<1>1. IsMessage(m) /\ (Turned(n, m) \/ NewMessage(n))
  BY DEF RingStep, GatewayReady, IsRing
<1> HIDE DEF n, m
<1>2. NumberKept(n, m) \/ NumberGiven(n)
  BY <1>1, TurnedNumber, NewNumber
<1>3. CASE NumberKept(n, m)
  <2>1. n.data = m.data /\ n.id = m.id /\ n.ext = m.ext
    BY <1>3 DEF NumberKept, n
  <2> QED
    BY <2>1 DEF Carry, n, m
<1>4. CASE NumberGiven(n)
  BY <1>4 DEF NumberGiven, n
<1> QED
  BY <1>2, <1>3, <1>4

(* A PUBLISH the gateway writes is a message of its ring.                     *)
LEMMA PublishSaid ==
  ASSUME SayStep, NEW p \in DOMAIN toClient', p.type = "PUBLISH"
  PROVE  \/ p \in DOMAIN toClient
         \/ \E i \in Places : HasContent(gring.place[i]) /\ p = Resent(gring.place[i])
<1>1. CASE p \in DOMAIN toClient
  BY <1>1
<1>2. ASSUME NEW x \in DOMAIN toGateway, SaidOf(p, x)
      PROVE  FALSE
  <2>1. ASSUME NEW code, p = Packet("PUBACK", x.id, 0, code)
        PROVE  FALSE
    BY <2>1 DEF Packet, PacketAbout
  <2>2. CASE p = Packet("PUBCOMP", x.id, 0, 0)
    BY <2>2 DEF Packet, PacketAbout
  <2>3. ASSUME NEW code, p = Packet("SUBACK", x.id, 0, code)
        PROVE  FALSE
    BY <2>3 DEF Packet, PacketAbout
  <2>4. ASSUME NEW j \in DOMAIN gtopics', NEW type \in {"REGACK", "SUBACK"},
               p = PacketAbout(type, x.id, 0, 0, gtopics'[j].id, "")
        PROVE  FALSE
    BY <2>4 DEF PacketAbout
  <2> QED
    BY <1>2, <2>1, <2>2, <2>3, <2>4, Zenon DEF SaidOf
<1>3. ASSUME NEW i \in Places, p = Packet("PUBACK", gring.place[i].id, 0, 0)
      PROVE  FALSE
  BY <1>3 DEF Packet, PacketAbout
<1>4. ASSUME NEW type \in {"CONNACK", "DISCONNECT", "GWINFO"}, p = Plain(type)
      PROVE  FALSE
  BY <1>4 DEF Plain, Packet, PacketAbout
<1> QED
  BY <1>1, <1>2, <1>3, <1>4 DEF SayStep, SaidToClient

LEMMA CarriedGateway ==
  ASSUME CarriedInv, GatewayReady, FreeNumbers, GatewayNext \/ GatewayTopicsNext, UNCHANGED clientVars
  PROVE  CarriedInv'
<1>1. RingStep /\ SayStep /\ BrokerStep
  BY RingSteps, SaySteps, BrokerSteps
<1>2. received' = received /\ cring' = cring /\ Given' = Given
  BY DEF clientVars, Given
<1>3. messages \in Nat /\ messages' \in {messages, messages + 1}
  BY <1>1 DEF CarriedInv, BrokerStep
<1>4. \A id, N : Carry(gring, id, N) /\ id # NextId(gring.last) => Carry(gring', id, N)
  BY <1>1, CarriedOn
<1>5. ASSUME NEW p \in DOMAIN toClient', p.type = "PUBLISH"
      PROVE  p.data \in 1 .. messages' /\ Carry(gring', p.id, {p.data})
  <2>1. CASE p \in DOMAIN toClient
    BY <1>3, <1>4, <1>5, <2>1 DEF CarriedInv, FreeNumbers, OutOfUse
  <2>2. ASSUME NEW i \in Places, HasContent(gring.place[i]), p = Resent(gring.place[i])
        PROVE  p.data \in 1 .. messages' /\ Carry(gring', p.id, {p.data})
    <3> DEFINE m == gring.place[i]
    <3>1. p.type = m.type /\ p.data = m.data
      BY <2>2 DEF Resent, PacketAbout
    <3>2. p.id = m.id
      BY <1>5, <2>2, <3>1 DEF Resent, PacketAbout
    <3>3. m.data \in 0 .. messages /\ ~m.ext /\ m.data # 0 /\ Carry(gring, m.id, {m.data})
      BY <1>5, <3>1 DEF CarriedInv
    <3>4. m.id # NextId(gring.last)
      BY <3>3 DEF FreeNumbers, OutOfUse
    <3>5. Carry(gring', m.id, {m.data})
      BY <1>4, <3>3, <3>4
    <3> HIDE DEF m
    <3>6. m.data \in 1 .. messages'
      BY <1>3, <3>3
    <3> QED
      BY <3>1, <3>2, <3>5, <3>6
  <2> QED
    BY <1>1, <1>5, <2>1, <2>2, PublishSaid
<1>6. ASSUME NEW x \in DOMAIN toGateway', Receipt(x)
      PROVE  Carry(gring', x.id, Given')
  BY <1>1, <1>2, <1>4, <1>6 DEF SayStep, CarriedInv, FreeNumbers, OutOfUse, Receipt
<1>7. \A i \in Places :
        /\ cring'.place[i].ext => Carry(gring', cring'.place[i].id, Given')
        /\ cring'.place[i].type \notin {"PUBACK", "PUBCOMP"}
  BY <1>2, <1>4 DEF CarriedInv, FreeNumbers, OutOfUse
<1>8. ASSUME NEW i \in Places
      PROVE  LET n == gring'.place[i]
             IN /\ n.data \in 0 .. messages'
                /\ ~n.ext /\ n.data # 0 => Carry(gring', n.id, {n.data})
                /\ n.type = "PUBLISH" => ~n.ext /\ n.data # 0
  <2> DEFINE n == gring'.place[i]
             m == gring.place[i]
  <2>1. /\ IsMessage(m) /\ (Turned(n, m) \/ NewMessage(n))
        /\ m.data \in 0 .. messages
        /\ ~m.ext /\ m.data # 0 => Carry(gring, m.id, {m.data})
        /\ m.type = "PUBLISH" => ~m.ext /\ m.data # 0
        /\ m.data # 0 => m.id # NextId(gring.last)
    BY <1>1 DEF RingStep, GatewayReady, IsRing, CarriedInv, FreeNumbers, OutOfUse
  <2> HIDE DEF n, m
  <2>2. NumberKept(n, m) \/ NumberGiven(n)
    BY <2>1, TurnedNumber, NewNumber
  <2>3. CASE NumberKept(n, m)
    <3>1. n.data \in 0 .. messages' /\ (n.type = "PUBLISH" => ~n.ext /\ n.data # 0)
      BY <1>3, <2>1, <2>3 DEF NumberKept
    <3>2. ~n.ext /\ n.data # 0 => Carry(gring', n.id, {n.data})
      BY <1>4, <2>1, <2>3 DEF NumberKept
    <3> QED
      BY <3>1, <3>2 DEF n
  <2>4. CASE n.data = 0 /\ n.type # "PUBLISH"
    <3>1. n.data \in 0 .. messages'
      BY <1>3, <2>4
    <3> QED
      BY <2>4, <3>1 DEF n
  <2>5. CASE HandedOver(n.data) /\ n.data \in 1 .. messages' /\ ~n.ext /\ n.id = NextId(gring.last)
    <3>1. n.data \in 0 .. messages' /\ n.data # 0
      BY <1>3, <2>5
    <3>2. Carry(gring', n.id, {n.data})
      <4> SUFFICES ASSUME NEW j \in Places, gring'.place[j].id = n.id, gring'.place[j].data # 0
                   PROVE  gring'.place[j].data = n.data
        BY DEF Carry
      <4> DEFINE k == gring'.place[j]
                 l == gring.place[j]
      <4>1. /\ IsMessage(l) /\ (Turned(k, l) \/ NewMessage(k))
            /\ l.data # 0 => l.id # NextId(gring.last)
        BY <1>1 DEF RingStep, GatewayReady, IsRing, FreeNumbers, OutOfUse
      <4>2. k.id = n.id /\ k.data # 0
        OBVIOUS
      <4> HIDE DEF k, l
      <4>3. NumberKept(k, l) \/ NumberGiven(k)
        BY <4>1, TurnedNumber, NewNumber
      <4>4. ~NumberKept(k, l)
        BY <2>5, <4>1, <4>2 DEF NumberKept
      <4>5. k.data = n.data
        <5>1. HandedOver(k.data)
          BY <4>2, <4>3, <4>4 DEF NumberGiven
        <5> QED
          BY <1>3, <2>5, <5>1 DEF HandedOver
      <4> QED
        BY <4>5 DEF k
    <3> QED
      BY <2>5, <3>1, <3>2 DEF n
  <2> QED
    BY <2>2, <2>3, <2>4, <2>5 DEF NumberGiven
<1>9. messages' \in Nat
  BY <1>3
<1>10. \A i \in Places :
         LET n == gring'.place[i]
         IN /\ n.data \in 0 .. messages'
            /\ ~n.ext /\ n.data # 0 => Carry(gring', n.id, {n.data})
            /\ n.type = "PUBLISH" => ~n.ext /\ n.data # 0
  BY <1>8
<1> QED
  BY <1>5, <1>6, <1>7, <1>9, <1>10 DEF CarriedInv

LEMMA CarriedInit == Init => CarriedInv
<1> SUFFICES ASSUME Init PROVE CarriedInv
  OBVIOUS
<1>1. DOMAIN toClient = {} /\ DOMAIN toGateway = {}
  BY NoPackets DEF Init
<1>2. messages = 0
  BY DEF Init, GInit
<1>3. \A i \in Places : EmptyRing.place[i] = Blank
  BY DEF EmptyRing
<1>4. ~Blank.ext /\ Blank.data = 0 /\ Blank.type = "none"
  BY DEF Blank
<1>5. \A i \in Places : gring.place[i] = Blank /\ cring.place[i] = Blank
  BY <1>3, InitialRing DEF Init, GInit, CInit
<1>6. messages \in Nat /\ 0 \in 0 .. messages
  BY <1>2
<1> QED
  BY <1>1, <1>4, <1>5, <1>6 DEF CarriedInv

LEMMA CarriedStep == TypedInv /\ CarriedInv /\ FreeNumbers /\ [Next]_vars => CarriedInv'
<1> SUFFICES ASSUME TypedInv, CarriedInv, FreeNumbers, [Next]_vars PROVE CarriedInv'
  OBVIOUS
<1>1. GatewayReady /\ ClientReady
  BY TypedReady
<1>2. CASE (ClientNext \/ ClientTopicsNext) /\ UNCHANGED <<gatewayVars, granted>>
  BY <1>1, <1>2, CarriedClient
<1>3. CASE (GatewayNext \/ GatewayTopicsNext) /\ UNCHANGED clientVars
  BY <1>1, <1>3, CarriedGateway
<1>4. CASE UNCHANGED vars
  <2>1. /\ messages' = messages /\ gring' = gring /\ cring' = cring /\ received' = received
        /\ toClient' = toClient /\ toGateway' = toGateway
    BY <1>4 DEF vars, clientVars, gatewayVars, radioVars, topicVars
  <2> QED
    BY <2>1 DEF CarriedInv, Carry, Given
<1> QED
  BY <1>2, <1>3, <1>4 DEF Next

LEMMA DeliveryInit == Init => Deliveries!Init
BY DEF Init, GInit, CInit, Deliveries!Init, Given

(* A client step delivers a message of the broker, a gateway step takes one   *)
(* over or confirms one the client was given.                                 *)
LEMMA DeliveryStep == TypedInv /\ CarriedInv /\ [Next]_vars => [Deliveries!Next]_(Deliveries!vars)
<1> SUFFICES ASSUME TypedInv, CarriedInv, [Next]_vars
             PROVE  Deliveries!Next \/ UNCHANGED Deliveries!vars
  OBVIOUS
<1>1. GatewayReady /\ ClientReady
  BY TypedReady
<1>2. CASE (ClientNext \/ ClientTopicsNext) /\ UNCHANGED <<gatewayVars, granted>>
  <2>1. messages' = messages /\ confirmed' = confirmed
    BY <1>2 DEF gatewayVars, topicVars
  <2>2. CASE received' = received
    BY <2>1, <2>2 DEF Deliveries!vars, Given
  <2>3. ASSUME NEW p \in DOMAIN toClient, NEW i \in DOMAIN ctopics, p.type = "PUBLISH",
               received' = received \cup
                 {[topic |-> ctopics[i].name, payload |-> p.name, number |-> p.data]}
        PROVE  Deliveries!Next
    <3> DEFINE r == [topic |-> ctopics[i].name, payload |-> p.name, number |-> p.data]
    <3>1. Given' = Given \cup {p.data}
      <4>1. r.number = p.data /\ received' = received \cup {r}
        BY <2>3
      <4> HIDE DEF r
      <4> QED
        BY <4>1 DEF Given
    <3>2. p.data \in 1 .. messages
      BY <2>3 DEF CarriedInv
    <3>3. Deliveries!Deliver(p.data)
      BY <2>1, <3>1 DEF Deliveries!Deliver
    <3> QED
      BY <3>2, <3>3 DEF Deliveries!Next
  <2> QED
    BY <1>1, <1>2, <2>2, <2>3, HearSteps DEF HearStep
<1>3. CASE (GatewayNext \/ GatewayTopicsNext) /\ UNCHANGED clientVars
  <2>1. Given' = Given
    BY <1>3 DEF clientVars, Given
  <2>2. CASE messages' = messages /\ confirmed' = confirmed
    BY <2>1, <2>2 DEF Deliveries!vars
  <2>3. CASE messages < MaxMessages /\ messages' = messages + 1 /\ confirmed' = confirmed
    BY <2>1, <2>3 DEF Deliveries!Next, Deliveries!HandOver
  <2>4. ASSUME messages' = messages, NEW x \in DOMAIN toGateway, NEW i \in Places, Receipt(x),
               ~gring.place[i].ext, gring.place[i].id = x.id, gring.place[i].data # 0,
               confirmed' = confirmed \cup {gring.place[i].data}
        PROVE  Deliveries!Next
    <3>1. gring.place[i].data \in Given
      BY <2>4 DEF CarriedInv, Carry
    <3>2. messages \in Nat /\ gring.place[i].data \in 0 .. messages
      BY DEF CarriedInv
    <3>3. gring.place[i].data \in 1 .. messages
      BY <2>4, <3>2
    <3>4. Deliveries!Confirm(gring.place[i].data)
      BY <2>1, <2>4, <3>1 DEF Deliveries!Confirm
    <3> QED
      BY <3>3, <3>4 DEF Deliveries!Next
  <2> QED
    BY <1>3, <2>2, <2>3, <2>4, BrokerSteps DEF BrokerStep
<1>4. CASE UNCHANGED vars
  BY <1>4 DEF vars, clientVars, gatewayVars, topicVars, Deliveries!vars, Given
<1> QED
  BY <1>2, <1>3, <1>4 DEF Next

(* The session keeps the promise about the broker's messages, as long as an   *)
(* id that is about to be given is out of use.                                *)
THEOREM SessionDelivers == Spec /\ []FreeNumbers => DeliverySpec
<1>1. Spec => []TypedInv
  BY TypedInit, TypedStep, PTL DEF Spec
<1>2. Spec /\ []FreeNumbers => []CarriedInv
  BY <1>1, CarriedInit, CarriedStep, PTL DEF Spec
<1> QED
  BY <1>1, <1>2, DeliveryInit, DeliveryStep, PTL DEF Spec, DeliverySpec, Deliveries!Spec

(* So no message the gateway takes for delivered was lost: as long as ids are *)
(* out of use, the application was given each of them.                        *)
THEOREM ConfirmedIsGiven == Spec /\ []FreeNumbers => []NoFalseDelivery
<1>1. Deliveries!Init => NoFalseDelivery
  BY DEF Deliveries!Init, NoFalseDelivery
<1>2. NoFalseDelivery /\ [Deliveries!Next]_(Deliveries!vars) => NoFalseDelivery'
  <2>1. ASSUME NoFalseDelivery, Deliveries!HandOver
        PROVE  NoFalseDelivery'
    BY <2>1 DEF Deliveries!HandOver, NoFalseDelivery
  <2>2. ASSUME NoFalseDelivery, NEW n, Deliveries!Deliver(n)
        PROVE  NoFalseDelivery'
    BY <2>2 DEF Deliveries!Deliver, NoFalseDelivery
  <2>3. ASSUME NoFalseDelivery, NEW n, Deliveries!Confirm(n)
        PROVE  NoFalseDelivery'
    BY <2>3 DEF Deliveries!Confirm, NoFalseDelivery
  <2>4. ASSUME NoFalseDelivery, UNCHANGED Deliveries!vars
        PROVE  NoFalseDelivery'
    BY <2>4 DEF Deliveries!vars, NoFalseDelivery
  <2> QED
    BY <2>1, <2>2, <2>3, <2>4 DEF Deliveries!Next
<1> QED
  BY <1>1, <1>2, SessionDelivers, PTL DEF DeliverySpec, Deliveries!Spec

----------------------------------------------------------------------------
(* Until ids start over, the ids in use are those given so far.               *)
NumbersLeft == grestarts = 0 /\ gring.last < MaxId
IssuedInv ==
  /\ \A i \in Places : gring.place[i].data # 0 => gring.place[i].id <= gring.last
  /\ \A p \in DOMAIN toClient : p.type = "PUBLISH" => p.id <= gring.last
  /\ \A x \in DOMAIN toGateway : x.type \in {"PUBACK", "PUBCOMP"} => x.id <= gring.last
  /\ \A i \in Places : cring.place[i].ext => cring.place[i].id <= gring.last

LEMMA LastTyped == TypedInv => gring.last \in 0 .. MaxId /\ grestarts \in Nat
BY MaxGatewayRestartsAssumption DEF TypedInv, GatewaySide, TypedRing, RecordTyped

LEMMA NextIdLeft ==
  ASSUME NEW last \in 0 .. MaxId, last < MaxId
  PROVE  NextId(last) = last + 1
BY DEF NextId

LEMMA IssuedFree == TypedInv /\ IssuedInv /\ NumbersLeft => FreeNumbers
<1> SUFFICES ASSUME TypedInv, IssuedInv, NumbersLeft PROVE OutOfUse(NextId(gring.last))
  BY DEF FreeNumbers
<1> DEFINE id == NextId(gring.last)
<1>1. gring.last \in Nat /\ id = gring.last + 1
  BY LastTyped, NextIdLeft DEF NumbersLeft
<1>2. id \in Nat /\ ~(id <= gring.last)
  BY <1>1
<1> HIDE DEF id
<1>3. OutOfUse(id)
  BY <1>2 DEF OutOfUse, IssuedInv
<1> QED
  BY <1>3 DEF id

LEMMA IssuedInit == Init => IssuedInv
<1> SUFFICES ASSUME Init PROVE IssuedInv
  OBVIOUS
<1>1. DOMAIN toClient = {} /\ DOMAIN toGateway = {}
  BY NoPackets DEF Init
<1>2. \A i \in Places : EmptyRing.place[i] = Blank
  BY DEF EmptyRing
<1>3. ~Blank.ext /\ Blank.data = 0
  BY DEF Blank
<1>4. \A i \in Places : gring.place[i] = Blank /\ cring.place[i] = Blank
  BY <1>2, InitialRing DEF Init, GInit, CInit
<1> QED
  BY <1>1, <1>3, <1>4 DEF IssuedInv

(* The client's ids of the broker's messages are those of packets it took.    *)
LEMMA IssuedClient ==
  ASSUME IssuedInv, CarriedInv, ClientReady, ClientNext \/ ClientTopicsNext, UNCHANGED gatewayVars
  PROVE  IssuedInv'
<1>1. OwnRingStep /\ TellStep
  BY OwnRingSteps, TellSteps
<1>2. gring' = gring
  BY DEF gatewayVars
<1>3. \A p \in DOMAIN toClient' : p.type = "PUBLISH" => p.id <= gring'.last
  BY <1>1, <1>2 DEF TellStep, IssuedInv
<1>4. ASSUME NEW x \in DOMAIN toGateway', x.type \in {"PUBACK", "PUBCOMP"}
      PROVE  x.id <= gring'.last
  <2>1. CASE x \in DOMAIN toGateway
    BY <1>2, <1>4, <2>1 DEF IssuedInv
  <2>2. ASSUME NEW i \in Places, x = Cached(cring.place[i])
        PROVE  FALSE
    <3>1. x.type = cring.place[i].type
      BY <2>2 DEF Cached, PacketAbout
    <3> QED
      BY <1>4, <3>1 DEF CarriedInv
  <2>3. ASSUME NEW p \in DOMAIN toClient, ReplyTo(x, p)
        PROVE  x.id <= gring'.last
    <3>1. CASE x = Packet("REGACK", p.id, 0, 0)
      BY <1>4, <3>1 DEF Packet, PacketAbout
    <3>2. ASSUME p.type = "PUBLISH", NEW code, x = Packet("PUBACK", p.id, 0, code)
          PROVE  x.id <= gring'.last
      <4>1. x.id = p.id
        BY <3>2 DEF Packet, PacketAbout
      <4> QED
        BY <1>2, <3>2, <4>1 DEF IssuedInv
    <3>3. ASSUME NEW i \in Places, cring.place[i].ext, cring.place[i].id = p.id,
                 x = Packet("PUBCOMP", p.id, 0, 0)
          PROVE  x.id <= gring'.last
      <4>1. x.id = p.id
        BY <3>3 DEF Packet, PacketAbout
      <4> QED
        BY <1>2, <3>3, <4>1 DEF IssuedInv
    <3> QED
      BY <2>3, <3>1, <3>2, <3>3 DEF ReplyTo
  <2> QED
    BY <1>1, <2>1, <2>2, <2>3 DEF TellStep, ToldToGateway
<1>5. ASSUME NEW i \in Places, cring'.place[i].ext
      PROVE  cring'.place[i].id <= gring'.last
  <2> DEFINE n == cring'.place[i]
             m == cring.place[i]
  <2>1. IsMessage(m) /\ (m.ext => m.id <= gring.last) /\ n.ext
    BY <1>5 DEF IssuedInv, ClientReady, IsRing
  <2>2. Became(n, m) \/ AddedMessage(n)
    BY <1>1 DEF OwnRingStep
  <2> HIDE DEF n, m
  <2>3. CASE Aged(n, m)
    <3>1. n.ext = m.ext /\ n.id = m.id
      BY <2>3 DEF Aged, Fields
    <3> QED
      BY <1>2, <2>1, <3>1 DEF n
  <2>4. CASE n = Blank \/ n = Reset(m)
    BY <2>1, <2>4, EmptyMessage
  <2>5. ASSUME NEW type, NEW data, NEW activity, n = ReplaceWith(m, type, data, activity)
        PROVE  n.id <= gring'.last
    <3>1. n.ext = m.ext /\ n.id = m.id
      BY <2>1, <2>5 DEF ReplaceWith, IsMessage, Fields
    <3> QED
      BY <1>2, <2>1, <3>1
  <2>6. CASE \E x \in DOMAIN toClient : x.type = "PUBLISH" /\ n = Recording(x)
    <3>1. PICK x \in DOMAIN toClient : x.type = "PUBLISH" /\ n = Recording(x)
      BY <2>6
    <3>2. n.id = x.id
      BY <3>1 DEF Recording
    <3> QED
      BY <1>2, <3>1, <3>2 DEF IssuedInv, n
  <2>7. ASSUME NEW type, NEW a, NEW tid, NEW name, NEW data, NEW qos,
               NEW oneshot, n = Fresh(OwnId, a, type, tid, name, data, qos, oneshot)
        PROVE  FALSE
    BY <2>1, <2>7 DEF Fresh
  <2>8. AddedMessage(n) => \E x \in DOMAIN toClient : x.type = "PUBLISH" /\ n = Recording(x)
    BY <2>7, Zenon DEF AddedMessage, AddedRequest
  <2> QED
    BY <2>2, <2>3, <2>4, <2>5, <2>6, <2>8 DEF Became, n
<1>6. \A i \in Places : gring'.place[i].data # 0 => gring'.place[i].id <= gring'.last
  BY <1>2 DEF IssuedInv
<1> QED
  BY <1>3, <1>4, <1>5, <1>6 DEF IssuedInv

(* The gateway's ids grow.                                                    *)
LEMMA IssuedGateway ==
  ASSUME IssuedInv, CarriedInv, TypedInv, NumbersLeft, NumbersLeft',
         GatewayNext \/ GatewayTopicsNext, UNCHANGED clientVars
  PROVE  IssuedInv'
<1>1. RingStep /\ SayStep /\ GatewayReady
  BY TypedReady, RingSteps, SaySteps
<1>2. cring' = cring
  BY DEF clientVars
<1>3. /\ gring.last \in Nat /\ gring'.last \in {gring.last, gring.last + 1}
      /\ NextId(gring.last) = gring.last + 1
  <2>1. gring.last \in 0 .. MaxId /\ NextId(gring.last) = gring.last + 1
    BY LastTyped, NextIdLeft DEF NumbersLeft
  <2>2. grestarts' # grestarts + 1
    BY DEF NumbersLeft
  <2> QED
    BY <1>1, <2>1, <2>2 DEF RingStep
<1>4. ASSUME NEW id \in 0 .. MaxId, id <= gring.last
      PROVE  id <= gring'.last
  BY <1>3, <1>4
<1>5. /\ \A i \in Places : gring.place[i].id \in 0 .. MaxId /\ cring.place[i].id \in 0 .. MaxId
      /\ \A x \in DOMAIN toClient : x.id \in 0 .. MaxId
      /\ \A x \in DOMAIN toGateway : x.id \in 0 .. MaxId
  <2>1. \A i \in Places : MessageToClient(gring.place[i]) /\ MessageToGateway(cring.place[i])
    BY DEF TypedInv, ClientSide, GatewaySide, TypedRing
  <2>2. \A i \in Places : gring.place[i].id \in 0 .. MaxId /\ cring.place[i].id \in 0 .. MaxId
    BY <2>1 DEF MessageToClient, MessageToGateway, TypedMessage
  <2>3. \A x \in DOMAIN toClient : x.id \in 0 .. MaxId
    BY DEF TypedInv, PacketsTyped, PacketToClient, Packets
  <2>4. \A x \in DOMAIN toGateway : x.id \in 0 .. MaxId
    BY DEF TypedInv, PacketsTyped, PacketToGateway, Packets
  <2> QED
    BY <2>2, <2>3, <2>4
<1>6. ASSUME NEW p \in DOMAIN toClient', p.type = "PUBLISH"
      PROVE  p.id <= gring'.last
  <2>1. CASE p \in DOMAIN toClient
    BY <1>4, <1>5, <1>6, <2>1 DEF IssuedInv
  <2>2. ASSUME NEW i \in Places, HasContent(gring.place[i]), p = Resent(gring.place[i])
        PROVE  p.id <= gring'.last
    <3> DEFINE m == gring.place[i]
    <3>1. p.type = m.type /\ p.id = m.id
      BY <1>6, <2>2 DEF Resent, PacketAbout
    <3>2. m.data # 0
      BY <1>6, <3>1 DEF CarriedInv
    <3>3. m.id <= gring'.last
      BY <1>4, <1>5, <3>2 DEF IssuedInv
    <3> QED
      BY <3>1, <3>3
  <2> QED
    BY <1>1, <1>6, <2>1, <2>2, PublishSaid
<1>7. ASSUME NEW x \in DOMAIN toGateway', x.type \in {"PUBACK", "PUBCOMP"}
      PROVE  x.id <= gring'.last
  BY <1>1, <1>4, <1>5, <1>7 DEF SayStep, IssuedInv
<1>8. \A i \in Places : cring'.place[i].ext => cring'.place[i].id <= gring'.last
  BY <1>2, <1>4, <1>5 DEF IssuedInv
<1>9. ASSUME NEW i \in Places, gring'.place[i].data # 0
      PROVE  gring'.place[i].id <= gring'.last
  <2> DEFINE n == gring'.place[i]
             m == gring.place[i]
  <2>1. /\ IsMessage(m) /\ n.data # 0
        /\ Turned(n, m) \/ (NewMessage(n) /\ gring'.last = NextId(gring.last))
        /\ m.data # 0 => m.id <= gring'.last
    BY <1>1, <1>4, <1>5, <1>9 DEF RingStep, GatewayReady, IsRing, IssuedInv
  <2> HIDE DEF n, m
  <2>2. NumberKept(n, m) \/ (NumberGiven(n) /\ gring'.last = NextId(gring.last))
    BY <2>1, TurnedNumber, NewNumber
  <2>3. CASE NumberKept(n, m)
    BY <2>1, <2>3 DEF NumberKept, n
  <2>4. CASE NumberGiven(n) /\ gring'.last = NextId(gring.last)
    BY <1>3, <2>1, <2>4 DEF NumberGiven, n
  <2> QED
    BY <2>2, <2>3, <2>4
<1> QED
  BY <1>6, <1>7, <1>8, <1>9 DEF IssuedInv

LEMMA IssuedStep ==
  TypedInv /\ CarriedInv /\ IssuedInv /\ NumbersLeft /\ NumbersLeft' /\ [Next]_vars => IssuedInv'
<1> SUFFICES ASSUME TypedInv, CarriedInv, IssuedInv, NumbersLeft, NumbersLeft', [Next]_vars PROVE IssuedInv'
  OBVIOUS
<1>1. GatewayReady /\ ClientReady
  BY TypedReady
<1>2. CASE (ClientNext \/ ClientTopicsNext) /\ UNCHANGED <<gatewayVars, granted>>
  BY <1>1, <1>2, IssuedClient
<1>3. CASE (GatewayNext \/ GatewayTopicsNext) /\ UNCHANGED clientVars
  BY <1>3, IssuedGateway
<1>4. CASE UNCHANGED vars
  <2>1. gring' = gring /\ cring' = cring /\ toClient' = toClient /\ toGateway' = toGateway
    BY <1>4 DEF vars, clientVars, gatewayVars, radioVars
  <2> QED
    BY <2>1 DEF IssuedInv
<1> QED
  BY <1>2, <1>3, <1>4 DEF Next

(* In particular, it keeps it until its ids start over or it restarts.        *)
THEOREM SessionDeliversAtFirst == Spec /\ []NumbersLeft => DeliverySpec
<1> DEFINE Inv == CarriedInv /\ IssuedInv
<1>1. Spec => []TypedInv
  BY TypedInit, TypedStep, PTL DEF Spec
<1>2. Init => Inv
  BY CarriedInit, IssuedInit
<1>3. TypedInv /\ Inv /\ NumbersLeft /\ NumbersLeft' /\ [Next]_vars => Inv'
  BY CarriedStep, IssuedFree, IssuedStep
<1>4. Spec /\ []NumbersLeft => []Inv
  BY <1>1, <1>2, <1>3, PTL DEF Spec
<1>5. TypedInv /\ Inv /\ NumbersLeft => FreeNumbers
  BY IssuedFree
<1>6. Spec /\ []NumbersLeft => []FreeNumbers
  BY <1>1, <1>4, <1>5, PTL
<1> QED
  BY <1>6, SessionDelivers, PTL

----------------------------------------------------------------------------
(* The names of topics. The gateway gave this name this id ...                *)
Listed(given, id, name) == [name |-> name, id |-> id] \in given

(* ... and of the client's topics, those that wait for answer k ask for this  *)
(* name, and have an id the gateway gave to their name.                       *)
AskName(asked, k, name) ==
  k # 0 /\ \A i \in DOMAIN asked : Awaits(asked[i], k) => asked[i].name = name
MayConfirm(asked, given, k, id) ==
  id # 0 => k # 0 /\ \A i \in DOMAIN asked : Awaits(asked[i], k) => Listed(given, id, asked[i].name)

(* A REGISTER of the gateway has the id of the topic it names.                *)
Announces(given, x) == x.type = "REGISTER" => Listed(given, x.tid, x.name)

AckTypes == {"REGACK", "SUBACK"}
MessageNames(asked, given, m) ==
  /\ Announces(given, m)
  /\ m.mos # 0 => MayConfirm(asked, given, m.id, m.tid)
  /\ m.type = "SUBACK" => m.mos # 0
  /\ m.type # "REGACK"
PacketName(asked, given, p) ==
  /\ Announces(given, p)
  /\ p.type \in AckTypes => MayConfirm(asked, given, p.id, p.tid)

AskTypes == {"REGISTER", "SUBSCRIBE"}
ClientNames ==
  \A i \in DOMAIN ctopics :
    ctopics[i].id # 0 => Listed(granted, ctopics[i].id, ctopics[i].name)
RequestNames ==
  /\ \A i \in Places :
       cring.place[i].type \in AskTypes => AskName(ctopics, cring.place[i].id, cring.place[i].name)
  /\ \A x \in DOMAIN toGateway : x.type \in AskTypes => AskName(ctopics, x.id, x.name)
GatewayNames == \A i \in Places : MessageNames(ctopics, granted, gring.place[i])
PacketNames == \A p \in DOMAIN toClient : PacketName(ctopics, granted, p)
NamesInv == ClientNames /\ RequestNames /\ GatewayNames /\ PacketNames

(* The id the client gives next is that of no request or acknowledgement.     *)
FreeMids ==
  /\ \A i \in DOMAIN ctopics : ~Awaits(ctopics[i], OwnId)
  /\ \A i \in Places : cring.place[i].type \in AskTypes => cring.place[i].id # OwnId
  /\ \A x \in DOMAIN toGateway : x.type \in AskTypes => x.id # OwnId
  /\ \A i \in Places : gring.place[i].mos # 0 /\ gring.place[i].tid # 0 => gring.place[i].id # OwnId
  /\ \A p \in DOMAIN toClient : p.type \in AckTypes /\ p.tid # 0 => p.id # OwnId

(* A topic that waits is one that waited, for the same name, or waits for the *)
(* client's next id, or for the answer to nothing.                            *)
LEMMA WaitsOn ==
  ASSUME ListStep, NEW i \in DOMAIN ctopics', NEW k, Awaits(ctopics'[i], k), k # 0, k # OwnId
  PROVE  \E j \in DOMAIN ctopics : Awaits(ctopics[j], k) /\ ctopics[j].name = ctopics'[i].name
<1> DEFINE t == ctopics'[i]
<1>1. TopicTurn(t)
  BY DEF ListStep
<1>2. Awaits(t, k)
  OBVIOUS
<1> HIDE DEF t
<1>3. CASE TopicKept(t)
  BY <1>2, <1>3 DEF TopicKept, NewlyAsked, t
<1>4. CASE TopicAsked(t)
  BY <1>2, <1>4 DEF TopicAsked, NewlyAsked
<1>5. CASE TopicTold(t)
  BY <1>2, <1>5 DEF TopicTold
<1>6. CASE TopicConfirmed(t)
  BY <1>2, <1>6 DEF TopicConfirmed, Awaits
<1> QED
  BY <1>1, <1>3, <1>4, <1>5, <1>6 DEF TopicTurn

LEMMA AskOn ==
  ASSUME ListStep, NEW k, NEW name, k # OwnId, AskName(ctopics, k, name)
  PROVE  AskName(ctopics', k, name)
<1> SUFFICES ASSUME NEW i \in DOMAIN ctopics', Awaits(ctopics'[i], k)
             PROVE  ctopics'[i].name = name
  BY DEF AskName
<1>1. k # 0
  BY DEF AskName
<1>2. \E j \in DOMAIN ctopics : Awaits(ctopics[j], k) /\ ctopics[j].name = ctopics'[i].name
  BY <1>1, WaitsOn
<1> QED
  BY <1>2 DEF AskName

LEMMA ConfirmOn ==
  ASSUME ListStep, NEW k, NEW id, id # 0 => k # OwnId, MayConfirm(ctopics, granted, k, id)
  PROVE  MayConfirm(ctopics', granted, k, id)
<1> SUFFICES ASSUME id # 0, NEW i \in DOMAIN ctopics', Awaits(ctopics'[i], k)
             PROVE  Listed(granted, id, ctopics'[i].name)
  BY DEF MayConfirm
<1>1. k # 0
  BY DEF MayConfirm
<1>2. \E j \in DOMAIN ctopics : Awaits(ctopics[j], k) /\ ctopics[j].name = ctopics'[i].name
  BY <1>1, WaitsOn
<1> QED
  BY <1>2 DEF MayConfirm

(* What the client knows after a step it knew, or the gateway told it.        *)
LEMMA ClientNamesOn ==
  ASSUME NamesInv, ListStep, granted' = granted
  PROVE  ClientNames'
<1>1. ASSUME NEW i \in DOMAIN ctopics', ctopics'[i].id # 0
      PROVE  Listed(granted, ctopics'[i].id, ctopics'[i].name)
  <2> DEFINE t == ctopics'[i]
  <2>1. TopicTurn(t) /\ t.id # 0
    BY <1>1 DEF ListStep
  <2> SUFFICES Listed(granted, t.id, t.name)
    OBVIOUS
  <2> HIDE DEF t
  <2>2. \A j \in DOMAIN ctopics : ctopics[j].id # 0 => Listed(granted, ctopics[j].id, ctopics[j].name)
    BY DEF NamesInv, ClientNames
  <2>3. CASE TopicKept(t)
    BY <2>1, <2>2, <2>3 DEF TopicKept
  <2>4. CASE TopicTold(t)
    BY <2>1, <2>4 DEF TopicTold, NamesInv, PacketNames, PacketName, Announces
  <2>5. CASE TopicConfirmed(t)
    <3>1. PICK x \in DOMAIN toClient, j \in DOMAIN ctopics :
            /\ x.type \in AckTypes /\ Awaits(ctopics[j], x.id)
            /\ t.name = ctopics[j].name /\ t.id \in {ctopics[j].id, x.tid}
      BY <2>5 DEF TopicConfirmed, AckTypes
    <3>2. CASE t.id = ctopics[j].id
      BY <2>1, <2>2, <3>1, <3>2
    <3>3. CASE t.id = x.tid
      BY <2>1, <3>1, <3>3 DEF NamesInv, PacketNames, PacketName, MayConfirm
    <3> QED
      BY <3>1, <3>2, <3>3
  <2> QED
    BY <2>1, <2>3, <2>4, <2>5 DEF TopicTurn, TopicAsked
<1> QED
  BY <1>1 DEF ClientNames

LEMMA RequestNamesOn ==
  ASSUME NamesInv, FreeMids, ClientReady, ListStep, OwnRingStep, TellStep
  PROVE  RequestNames'
<1>1. OwnId # 0
  BY NextIdType DEF ClientReady, OwnId
<1>2. ASSUME NEW i \in Places, cring'.place[i].type \in AskTypes
      PROVE  AskName(ctopics', cring'.place[i].id, cring'.place[i].name)
  <2> DEFINE n == cring'.place[i]
             m == cring.place[i]
  <2> SUFFICES AskName(ctopics', n.id, n.name)
    OBVIOUS
  <2>1. /\ IsMessage(m) /\ n.type \in AskTypes
        /\ m.type \in AskTypes => m.id # OwnId /\ AskName(ctopics, m.id, m.name)
    BY <1>2 DEF ClientReady, IsRing, NamesInv, RequestNames, FreeMids
  <2>2. Became(n, m) \/ AddedMessage(n)
    BY DEF OwnRingStep
  <2> HIDE DEF n, m
  <2>3. CASE Aged(n, m)
    <3>1. n.type = m.type /\ n.id = m.id /\ n.name = m.name
      BY <2>3 DEF Aged, Fields
    <3> QED
      BY <2>1, <3>1, AskOn
  <2>4. CASE n = Blank \/ n = Reset(m)
    BY <2>1, <2>4, EmptyMessage DEF AskTypes
  <2>5. ASSUME NEW type \in {"WILLTOPIC", "WILLMSG", "PUBREL"}, NEW data, NEW activity,
               n = ReplaceWith(m, type, data, activity)
        PROVE  FALSE
    <3>1. n.type = type
      BY <2>1, <2>5 DEF ReplaceWith, IsMessage, Fields
    <3> QED
      BY <2>1, <3>1 DEF AskTypes
  <2>6. ASSUME NEW name, AllAsk(name), NEW a, NEW type, NEW qos, NEW oneshot,
               n = Fresh(OwnId, a, type, 0, name, 0, qos, oneshot)
        PROVE  AskName(ctopics', n.id, n.name)
    <3>1. n.id = OwnId /\ n.name = name
      BY <2>6 DEF Fresh
    <3>2. AskName(ctopics', OwnId, name)
      BY <1>1, <2>6 DEF AskName, AllAsk, FreeMids
    <3> QED
      BY <3>1, <3>2
  <2>7. ASSUME NEW type \in {"CONNECT", "DISCONNECT", "SEARCHGW", "PUBLISH", "none"}, NEW a, NEW tid,
               NEW name, NEW data, NEW qos, NEW oneshot,
               n = Fresh(OwnId, a, type, tid, name, data, qos, oneshot)
        PROVE  FALSE
    <3>1. n.type = type
      BY <2>7 DEF Fresh
    <3> QED
      BY <2>1, <3>1 DEF AskTypes
  <2>8. ASSUME NEW x, n = Recording(x)
        PROVE  FALSE
    BY <2>1, <2>8 DEF Recording, AskTypes
  <2>9. CASE AddedMessage(n)
    <3>1. \/ AddedRequest(n)
          \/ \E type \in {"CONNECT", "DISCONNECT", "SEARCHGW", "PUBLISH", "none"} :
              \E a, tid, name, data, qos, oneshot :
               n = Fresh(OwnId, a, type, tid, name, data, qos, oneshot)
          \/ \E x : n = Recording(x)
      BY <2>9, Zenon DEF AddedMessage
    <3>2. CASE AddedRequest(n)
      BY <2>6, <3>2, Zenon DEF AddedRequest
    <3> QED
      BY <2>7, <2>8, <3>1, <3>2
  <2> QED
    BY <2>2, <2>3, <2>4, <2>5, <2>9 DEF Became
<1>3. ASSUME NEW x \in DOMAIN toGateway', x.type \in AskTypes
      PROVE  AskName(ctopics', x.id, x.name)
  <2>1. CASE x \in DOMAIN toGateway
    BY <1>3, <2>1, AskOn DEF NamesInv, RequestNames, FreeMids
  <2>2. ASSUME NEW i \in Places, x = Cached(cring.place[i])
        PROVE  AskName(ctopics', x.id, x.name)
    <3> DEFINE m == cring.place[i]
    <3>1. x.type = m.type /\ x.name = m.name
      BY <2>2 DEF Cached, PacketAbout
    <3>2. x.id = m.id
      BY <1>3, <2>2, <3>1 DEF Cached, PacketAbout, AskTypes, Numbered
    <3>3. m.id # OwnId /\ AskName(ctopics, m.id, m.name)
      BY <1>3, <3>1 DEF NamesInv, RequestNames, FreeMids
    <3> HIDE DEF m
    <3> QED
      BY <3>1, <3>2, <3>3, AskOn
  <2>3. ASSUME NEW type \in {"REGACK", "PUBACK", "PUBCOMP"}, NEW id, NEW code, x = Packet(type, id, 0, code)
        PROVE  FALSE
    <3>1. x.type = type
      BY <2>3 DEF Packet, PacketAbout
    <3> QED
      BY <1>3, <3>1 DEF AskTypes
  <2>4. ASSUME NEW p \in DOMAIN toClient, ReplyTo(x, p)
        PROVE  FALSE
    BY <2>3, <2>4, Zenon DEF ReplyTo
  <2> QED
    BY <2>1, <2>2, <2>4 DEF TellStep, ToldToGateway
<1> QED
  BY <1>2, <1>3 DEF RequestNames

LEMMA NamesClient ==
  ASSUME NamesInv, FreeMids, ClientReady, ClientNext \/ ClientTopicsNext,
         UNCHANGED gatewayVars, granted' = granted
  PROVE  NamesInv'
<1>1. ListStep /\ OwnRingStep /\ TellStep
  BY ListSteps, OwnRingSteps, TellSteps
<1>2. gring' = gring /\ granted' = granted
  BY DEF gatewayVars
<1>3. ClientNames' /\ RequestNames'
  BY <1>1, <1>2, ClientNamesOn, RequestNamesOn
<1>4. ASSUME NEW i \in Places
      PROVE  MessageNames(ctopics', granted', gring'.place[i])
  BY <1>1, <1>2, ConfirmOn DEF NamesInv, GatewayNames, MessageNames, FreeMids
<1>5. ASSUME NEW p \in DOMAIN toClient'
      PROVE  PacketName(ctopics', granted', p)
  <2>1. p \in DOMAIN toClient
    BY <1>1 DEF TellStep
  <2> QED
    BY <1>1, <1>2, <2>1, ConfirmOn DEF NamesInv, PacketNames, PacketName, FreeMids
<1>6. GatewayNames'
  BY <1>4 DEF GatewayNames
<1>7. PacketNames'
  BY <1>5 DEF PacketNames
<1> QED
  BY <1>3, <1>6, <1>7 DEF NamesInv

(* What the invariant says of the gateway's messages and of what it writes.   *)
LEMMA TurnedNames ==
  ASSUME NEW m, IsMessage(m), NEW n, Turned(n, m), NEW asked, NEW given, MessageNames(asked, given, m)
  PROVE  MessageNames(asked, given, n)
<1>1. CASE Aged(n, m)
  <2>1. /\ n.type = m.type /\ n.id = m.id /\ n.tid = m.tid /\ n.mos = m.mos /\ n.name = m.name
    BY <1>1 DEF Aged, Fields
  <2> QED
    BY <2>1 DEF MessageNames, Announces
<1>2. CASE n = Blank \/ n = Reset(m)
  <2>1. n.type = "none" /\ n.mos = 0
    BY <1>2, EmptyMessage
  <2> QED
    BY <2>1 DEF MessageNames, Announces
<1>3. ASSUME NEW type \in {"WILLMSGREQ", "PUBREL"}, NEW data, NEW activity,
             n = ReplaceWith(m, type, data, activity)
      PROVE  MessageNames(asked, given, n)
  <2>1. n.type = type /\ n.id = m.id /\ n.tid = m.tid /\ n.mos = m.mos
    BY <1>3 DEF ReplaceWith, IsMessage, Fields
  <2>2. type \notin {"REGISTER", "SUBACK", "REGACK"}
    OBVIOUS
  <2> QED
    BY <2>1, <2>2 DEF MessageNames, Announces
<1>4. ASSUME m.mos # 0, NEW type \in {"PUBREC", "SUBACK"}, n = [m EXCEPT !.type = type]
      PROVE  MessageNames(asked, given, n)
  <2>1. n.type = type /\ n.id = m.id /\ n.tid = m.tid /\ n.mos = m.mos
    BY <1>4 DEF IsMessage, Fields
  <2> QED
    BY <1>4, <2>1 DEF MessageNames, Announces
<1> QED
  BY <1>1, <1>2, <1>3, <1>4 DEF Turned

LEMMA NewNames ==
  ASSUME NEW n, NewMessage(n), Grants(gtopics') \subseteq granted', RequestNames
  PROVE  MessageNames(ctopics, granted', n)
<1> DEFINE new == gtopics'
           given == granted'
<1>1. \A j \in DOMAIN new : Listed(given, new[j].id, new[j].name)
  BY DEF Grants, Listed
<1>2. CASE Telling(n)
  <2>1. PICK j \in DOMAIN new :
          \E id, a, qos : n = Fresh(id, a, "REGISTER", new[j].id, new[j].name, 0, qos, FALSE)
    BY <1>2 DEF Telling
  <2>2. n.type = "REGISTER" /\ n.tid = new[j].id /\ n.name = new[j].name /\ n.mos = 0
    BY <2>1 DEF Fresh
  <2> HIDE DEF new, given
  <2>3. MessageNames(ctopics, given, n)
    BY <1>1, <2>2 DEF MessageNames, Announces
  <2> QED
    BY <2>3 DEF given
<1>3. CASE Delivering(n) \/ AsksWill(n) \/ GivenUp(n)
  <2>1. PICK type \in {"PUBLISH", "WILLTOPICREQ", "none"} :
          n.type = type /\ n.mos = 0
    <3>1. ASSUME Delivering(n)
          PROVE  n.type = "PUBLISH" /\ n.mos = 0
      <4>1. \E id, a, tid, name, data, qos, oneshot :
              n = Fresh(id, a, "PUBLISH", tid, name, data, qos, oneshot)
        BY <3>1, Zenon DEF Delivering
      <4> QED
        BY <4>1 DEF Fresh
    <3>2. ASSUME AsksWill(n)
          PROVE  n.type = "WILLTOPICREQ" /\ n.mos = 0
      <4>1. \E id, a, tid, name, data, qos, oneshot :
              n = Fresh(id, a, "WILLTOPICREQ", tid, name, data, qos, oneshot)
        BY <3>2, Zenon DEF AsksWill
      <4> QED
        BY <4>1 DEF Fresh
    <3>3. ASSUME GivenUp(n)
          PROVE  n.type = "none" /\ n.mos = 0
      <4>1. \E id, a, tid, name, data, qos, oneshot :
              n = [Fresh(id, a, "none", tid, name, data, qos, oneshot) EXCEPT !.active = FALSE]
        BY <3>3, Zenon DEF GivenUp
      <4> QED
        BY <4>1 DEF Fresh
    <3> QED
      BY <1>3, <3>1, <3>2, <3>3
  <2> HIDE DEF given
  <2>2. MessageNames(ctopics, given, n)
    BY <2>1 DEF MessageNames, Announces
  <2> QED
    BY <2>2 DEF given
<1>4. CASE WaitingFor(n)
  <2>1. ASSUME NEW x, n = Awaiting(x, "publishing", 0, mids', FALSE)
        PROVE  MessageNames(ctopics, granted', n)
    <3>1. n.type = "none" /\ n.tid = 0
      BY <2>1 DEF Awaiting
    <3> QED
      BY <3>1 DEF MessageNames, Announces, MayConfirm
  <2>2. ASSUME NEW x \in DOMAIN toGateway, x.type = "SUBSCRIBE", NEW j \in DOMAIN gtopics',
               gtopics'[j].name = x.name, n = Awaiting(x, "subscribing", gtopics'[j].id, mids', TRUE)
        PROVE  MessageNames(ctopics, granted', n)
    <3>1. n.type = "none" /\ n.tid = gtopics'[j].id /\ n.id = x.id
      BY <2>2 DEF Awaiting
    <3>2. AskName(ctopics, x.id, x.name)
      BY <2>2 DEF RequestNames, AskTypes
    <3>3. Listed(granted', gtopics'[j].id, x.name)
      BY <1>1, <2>2
    <3>4. MayConfirm(ctopics, granted', x.id, gtopics'[j].id)
      BY <3>2, <3>3 DEF MayConfirm, AskName
    <3> QED
      BY <3>1, <3>4 DEF MessageNames, Announces
  <2> QED
    BY <1>4, <2>1, <2>2 DEF WaitingFor
<1> QED
  BY <1>2, <1>3, <1>4 DEF NewMessage

LEMMA ResentNames ==
  ASSUME NEW m, NEW p, p = Resent(m), NEW asked, NEW given, MessageNames(asked, given, m)
  PROVE  PacketName(asked, given, p)
<1>1. p.type = m.type /\ p.name = m.name
  BY DEF Resent, PacketAbout
<1>2. /\ p.type \in AckTypes => p.id = m.id
      /\ p.type \in {"REGISTER", "SUBACK"} => p.tid = m.tid
  BY <1>1 DEF Resent, PacketAbout, AckTypes
<1> QED
  BY <1>1, <1>2 DEF MessageNames, PacketName, Announces, AckTypes

LEMMA AnswerNames ==
  ASSUME NEW p, NEW x \in DOMAIN toGateway, SaidOf(p, x), RequestNames,
         Grants(gtopics') \subseteq granted'
  PROVE  PacketName(ctopics, granted', p)
<1>1. ASSUME NEW type \in {"PUBACK", "PUBCOMP", "SUBACK"}, NEW code, p = Packet(type, x.id, 0, code)
      PROVE  PacketName(ctopics, granted', p)
  <2>1. p.type = type /\ p.tid = 0
    BY <1>1 DEF Packet, PacketAbout
  <2> QED
    BY <2>1 DEF PacketName, Announces, MayConfirm
<1>2. ASSUME x.type \in AskTypes, NEW j \in DOMAIN gtopics', gtopics'[j].name = x.name,
             NEW type \in {"REGACK", "SUBACK"}, p = PacketAbout(type, x.id, 0, 0, gtopics'[j].id, "")
      PROVE  PacketName(ctopics, granted', p)
  <2>1. p.type = type /\ p.id = x.id /\ p.tid = gtopics'[j].id
    BY <1>2 DEF PacketAbout
  <2>2. AskName(ctopics, x.id, x.name)
    BY <1>2 DEF RequestNames
  <2>3. Listed(granted', gtopics'[j].id, x.name)
    BY <1>2 DEF Grants, Listed
  <2>4. MayConfirm(ctopics, granted', x.id, gtopics'[j].id)
    BY <2>2, <2>3 DEF MayConfirm, AskName
  <2> QED
    BY <2>1, <2>4 DEF PacketName, Announces
<1>3. \/ \E code : p = Packet("PUBACK", x.id, 0, code)
      \/ p = Packet("PUBCOMP", x.id, 0, 0)
      \/ \E code : p = Packet("SUBACK", x.id, 0, code)
      \/ /\ x.type \in AskTypes
         /\ \E j \in DOMAIN gtopics', type \in {"REGACK", "SUBACK"} :
              gtopics'[j].name = x.name /\ p = PacketAbout(type, x.id, 0, 0, gtopics'[j].id, "")
  BY Zenon DEF SaidOf, AskTypes
<1> QED
  BY <1>1, <1>2, <1>3

LEMMA PlainNames ==
  ASSUME NEW asked, NEW given, NEW p, NEW type \in {"CONNACK", "DISCONNECT", "GWINFO", "PUBACK"},
         NEW id, p = Packet(type, id, 0, 0)
  PROVE  PacketName(asked, given, p)
<1>1. p.type = type
  BY DEF Packet, PacketAbout
<1> QED
  BY <1>1 DEF PacketName, Announces, AckTypes

(* What the gateway gives is its topics'.                                     *)
LEMMA NamesGateway ==
  ASSUME NamesInv, GatewayReady, RingStep, SayStep, UNCHANGED clientVars,
         granted \subseteq granted', Grants(gtopics') \subseteq granted'
  PROVE  NamesInv'
<1>1. ctopics' = ctopics /\ cring' = cring
  BY DEF clientVars
<1>2. \A x : Announces(granted, x) => Announces(granted', x)
  BY DEF Announces, Listed
<1>3. \A k, id : MayConfirm(ctopics, granted, k, id) => MayConfirm(ctopics, granted', k, id)
  BY DEF MayConfirm, Listed
<1>4. /\ \A m : MessageNames(ctopics, granted, m) => MessageNames(ctopics, granted', m)
      /\ \A p : PacketName(ctopics, granted, p) => PacketName(ctopics, granted', p)
  BY <1>2, <1>3 DEF MessageNames, PacketName
<1>5. ASSUME NEW i \in Places
      PROVE  MessageNames(ctopics', granted', gring'.place[i])
  <2> DEFINE n == gring'.place[i]
             m == gring.place[i]
  <2>1. /\ IsMessage(m) /\ (Turned(n, m) \/ NewMessage(n))
        /\ MessageNames(ctopics, granted', m)
    BY <1>4 DEF RingStep, GatewayReady, IsRing, NamesInv, GatewayNames
  <2> HIDE DEF n, m
  <2>2. MessageNames(ctopics, granted', n)
    <3>1. CASE Turned(n, m)
      BY <2>1, <3>1, TurnedNames
    <3>2. CASE NewMessage(n)
      BY <3>2, NewNames DEF NamesInv
    <3> QED
      BY <2>1, <3>1, <3>2
  <2> QED
    BY <1>1, <2>2 DEF n
<1>6. ASSUME NEW p \in DOMAIN toClient'
      PROVE  PacketName(ctopics', granted', p)
  <2>1. CASE p \in DOMAIN toClient
    BY <1>1, <1>4, <2>1 DEF NamesInv, PacketNames
  <2>2. ASSUME NEW i \in Places, p = Resent(gring.place[i])
        PROVE  PacketName(ctopics, granted', p)
    <3>1. MessageNames(ctopics, granted', gring.place[i])
      BY <1>4 DEF NamesInv, GatewayNames
    <3> QED
      BY <2>2, <3>1, ResentNames
  <2>3. ASSUME NEW i \in Places, p = Packet("PUBACK", gring.place[i].id, 0, 0)
        PROVE  PacketName(ctopics, granted', p)
    <3>1. PICK type \in {"CONNACK", "DISCONNECT", "GWINFO", "PUBACK"} : type = "PUBACK"
      OBVIOUS
    <3>2. p = Packet(type, gring.place[i].id, 0, 0)
      BY <2>3, <3>1
    <3> QED
      BY <3>2, PlainNames
  <2>4. ASSUME NEW type \in {"CONNACK", "DISCONNECT", "GWINFO"}, p = Plain(type)
        PROVE  PacketName(ctopics, granted', p)
    <3>1. type \in {"CONNACK", "DISCONNECT", "GWINFO", "PUBACK"} /\ p = Packet(type, 0, 0, 0)
      BY <2>4 DEF Plain
    <3> QED
      BY <3>1, PlainNames
  <2>5. ASSUME NEW x \in DOMAIN toGateway, SaidOf(p, x)
        PROVE  PacketName(ctopics, granted', p)
    BY <2>5, AnswerNames DEF NamesInv
  <2> QED
    BY <1>1, <2>1, <2>2, <2>3, <2>4, <2>5 DEF SayStep, SaidToClient
<1>7. ClientNames'
  BY <1>1 DEF NamesInv, ClientNames, Listed
<1>8. RequestNames'
  BY <1>1 DEF NamesInv, RequestNames, SayStep
<1>9. GatewayNames' /\ PacketNames'
  BY <1>5, <1>6 DEF GatewayNames, PacketNames
<1> QED
  BY <1>7, <1>8, <1>9 DEF NamesInv

LEMMA NamesInit == Init => NamesInv
<1> SUFFICES ASSUME Init PROVE NamesInv
  OBVIOUS
<1>1. DOMAIN toClient = {} /\ DOMAIN toGateway = {}
  BY NoPackets DEF Init
<1>2. \A i \in Places : EmptyRing.place[i] = Blank
  BY DEF EmptyRing
<1>3. Blank.type = "none" /\ Blank.mos = 0
  BY DEF Blank
<1>4. \A i \in Places : gring.place[i] = Blank /\ cring.place[i] = Blank
  BY <1>2, InitialRing DEF Init, GInit, CInit
<1>5. ctopics = <<>>
  BY DEF Init, CInit
<1>6. ClientNames
  BY <1>5 DEF ClientNames
<1>7. RequestNames
  BY <1>1, <1>3, <1>4 DEF RequestNames, AskTypes
<1>8. GatewayNames /\ PacketNames
  BY <1>1, <1>3, <1>4 DEF GatewayNames, PacketNames, MessageNames, Announces, AckTypes
<1> QED
  BY <1>6, <1>7, <1>8 DEF NamesInv

LEMMA NamesStep == TypedInv /\ NamesInv /\ FreeMids /\ [Next]_vars => NamesInv'
<1> SUFFICES ASSUME TypedInv, NamesInv, FreeMids, [Next]_vars
             PROVE  NamesInv'
  OBVIOUS
<1>1. GatewayReady /\ ClientReady
  BY TypedReady
<1>2. CASE (ClientNext \/ ClientTopicsNext) /\ UNCHANGED <<gatewayVars, granted>>
  BY <1>1, <1>2, NamesClient
<1>3. CASE /\ GatewayNext \/ GatewayTopicsNext
           /\ granted' = granted \cup Grants(gtopics')
           /\ UNCHANGED clientVars
  <2>1. RingStep /\ SayStep
    BY <1>1, <1>3, RingSteps, SaySteps
  <2> QED
    BY <1>1, <1>3, <2>1, NamesGateway
<1>4. CASE UNCHANGED vars
  <2>1. /\ gring' = gring /\ cring' = cring /\ toClient' = toClient /\ toGateway' = toGateway
        /\ ctopics' = ctopics /\ granted' = granted
    BY <1>4 DEF vars, clientVars, gatewayVars, radioVars, topicVars
  <2> QED
    BY <2>1 DEF NamesInv, ClientNames, RequestNames, GatewayNames, PacketNames
<1> QED
  BY <1>2, <1>3, <1>4 DEF Next

(* Until the client's ids start over, it asked with the ids given so far.     *)
OwnNumbersLeft == made["restart"] = 0 /\ cring.last < MaxId
AskedInv ==
  /\ \A i \in DOMAIN ctopics : ctopics[i].complete \/ ctopics[i].mid <= cring.last
  /\ \A i \in Places : cring.place[i].type \in AskTypes => cring.place[i].id <= cring.last
  /\ \A x \in DOMAIN toGateway : x.type \in AskTypes => x.id <= cring.last
  /\ \A i \in Places : gring.place[i].mos # 0 /\ gring.place[i].tid # 0 => gring.place[i].id <= cring.last
  /\ \A p \in DOMAIN toClient : p.type \in AckTypes /\ p.tid # 0 => p.id <= cring.last

LEMMA OwnIdLeft ==
  ASSUME TypedInv, OwnNumbersLeft
  PROVE  cring.last \in Nat /\ OwnId = cring.last + 1
<1>1. cring.last \in 0 .. MaxId
  BY DEF TypedInv, ClientSide, TypedRing
<1> QED
  BY <1>1 DEF OwnNumbersLeft, OwnId, NextId

LEMMA AskedFree == TypedInv /\ AskedInv /\ OwnNumbersLeft => FreeMids
<1> SUFFICES ASSUME TypedInv, AskedInv, OwnNumbersLeft PROVE FreeMids
  OBVIOUS
<1>1. ~(OwnId <= cring.last)
  BY OwnIdLeft
<1> QED
  BY <1>1 DEF FreeMids, AskedInv, Awaits

LEMMA AskedInit == Init => AskedInv
<1> SUFFICES ASSUME Init PROVE AskedInv
  OBVIOUS
<1>1. DOMAIN toClient = {} /\ DOMAIN toGateway = {}
  BY NoPackets DEF Init
<1>2. \A i \in Places : EmptyRing.place[i] = Blank
  BY DEF EmptyRing
<1>3. Blank.type = "none" /\ Blank.mos = 0
  BY DEF Blank
<1>4. \A i \in Places : gring.place[i] = Blank /\ cring.place[i] = Blank
  BY <1>2, InitialRing DEF Init, GInit, CInit
<1>5. ctopics = <<>>
  BY DEF Init, CInit
<1> QED
  BY <1>1, <1>3, <1>4, <1>5 DEF AskedInv, AskTypes

LEMMA IdsTyped ==
  ASSUME TypedInv
  PROVE  /\ \A i \in Places : gring.place[i].id \in 0 .. MaxId /\ cring.place[i].id \in 0 .. MaxId
         /\ \A x \in DOMAIN toClient : x.id \in 0 .. MaxId
         /\ \A x \in DOMAIN toGateway : x.id \in 0 .. MaxId
<1>1. \A i \in Places : MessageToClient(gring.place[i]) /\ MessageToGateway(cring.place[i])
  BY DEF TypedInv, ClientSide, GatewaySide, TypedRing
<1>2. \A i \in Places : gring.place[i].id \in 0 .. MaxId /\ cring.place[i].id \in 0 .. MaxId
  BY <1>1 DEF MessageToClient, MessageToGateway, TypedMessage
<1>3. \A x \in DOMAIN toClient : x.id \in 0 .. MaxId
  BY DEF TypedInv, PacketsTyped, PacketToClient, Packets
<1>4. \A x \in DOMAIN toGateway : x.id \in 0 .. MaxId
  BY DEF TypedInv, PacketsTyped, PacketToGateway, Packets
<1> QED
  BY <1>2, <1>3, <1>4

(* A request of the client's ring was there, or has the id it gives next.     *)
LEMMA RequestTurn ==
  ASSUME ClientReady, OwnRingStep, NEW i \in Places, cring'.place[i].type \in AskTypes
  PROVE  \/ cring.place[i].type \in AskTypes /\ cring'.place[i].id = cring.place[i].id
         \/ cring'.place[i].id = OwnId /\ cring'.last = OwnId
<1> DEFINE n == cring'.place[i]
           m == cring.place[i]
<1>1. IsMessage(m) /\ n.type \in AskTypes /\ (Became(n, m) \/ (AddedMessage(n) /\ cring'.last = OwnId))
  BY DEF OwnRingStep, ClientReady, IsRing
<1> SUFFICES (m.type \in AskTypes /\ n.id = m.id) \/ (n.id = OwnId /\ cring'.last = OwnId)
  OBVIOUS
<1> HIDE DEF n, m
<1>2. CASE Aged(n, m)
  BY <1>1, <1>2 DEF Aged, Fields
<1>3. CASE n = Blank \/ n = Reset(m)
  BY <1>1, <1>3, EmptyMessage DEF AskTypes
<1>4. ASSUME NEW type \in {"WILLTOPIC", "WILLMSG", "PUBREL"}, NEW data, NEW activity,
             n = ReplaceWith(m, type, data, activity)
      PROVE  FALSE
  <2>1. n.type = type
    BY <1>1, <1>4 DEF ReplaceWith, IsMessage, Fields
  <2> QED
    BY <1>1, <2>1 DEF AskTypes
<1>5. ASSUME AddedMessage(n)
      PROVE  n.id = OwnId
  <2>1. \/ \E a, type, tid, name, data, qos, oneshot :
              n = Fresh(OwnId, a, type, tid, name, data, qos, oneshot)
        \/ \E x : n = Recording(x)
    BY <1>5, Zenon DEF AddedMessage, AddedRequest
  <2>2. \A x : Recording(x).type = "PUBREC"
    BY DEF Recording
  <2>3. \A a, type, tid, name, data, qos, oneshot :
          Fresh(OwnId, a, type, tid, name, data, qos, oneshot).id = OwnId
    BY DEF Fresh
  <2> QED
    BY <1>1, <2>1, <2>2, <2>3 DEF AskTypes
<1> QED
  BY <1>1, <1>2, <1>3, <1>4, <1>5 DEF Became

LEMMA ReplyAsksNot ==
  ASSUME NEW x, NEW p, ReplyTo(x, p)
  PROVE  x.type \notin AskTypes
<1>1. \E type \in {"REGACK", "PUBACK", "PUBCOMP"} : \E code : x = Packet(type, p.id, 0, code)
  BY Zenon DEF ReplyTo
<1>2. \A type, code : Packet(type, p.id, 0, code).type = type
  BY DEF Packet, PacketAbout
<1> QED
  BY <1>1, <1>2 DEF AskTypes

(* What the client asks with now is its next id.                              *)
LEMMA AskedClient ==
  ASSUME AskedInv, TypedInv, OwnNumbersLeft, OwnNumbersLeft',
         ClientNext \/ ClientTopicsNext, UNCHANGED gatewayVars
  PROVE  AskedInv'
<1>1. ListStep /\ OwnRingStep /\ TellStep /\ ClientReady
  BY TypedReady, ListSteps, OwnRingSteps, TellSteps
<1>2. gring' = gring
  BY DEF gatewayVars
<1>3. cring'.last \in {cring.last, OwnId}
  <2>1. ~Count("restart")
    BY DEF TypedInv, ClientSide, CallsTyped, OwnNumbersLeft, Count, Calls
  <2> QED
    BY <1>1, <2>1 DEF OwnRingStep
<1>4. cring.last \in Nat /\ cring'.last \in {cring.last, cring.last + 1}
  BY <1>3, OwnIdLeft
<1>5. ASSUME NEW id \in 0 .. MaxId, id <= cring.last
      PROVE  id <= cring'.last
  BY <1>4, <1>5
<1>6. /\ \A i \in Places : gring.place[i].id \in 0 .. MaxId /\ cring.place[i].id \in 0 .. MaxId
      /\ \A x \in DOMAIN toClient : x.id \in 0 .. MaxId
      /\ \A x \in DOMAIN toGateway : x.id \in 0 .. MaxId
  BY IdsTyped
<1>7. ASSUME NEW i \in DOMAIN ctopics', ~ctopics'[i].complete
      PROVE  ctopics'[i].mid <= cring'.last
  <2> DEFINE t == ctopics'[i]
             k == t.mid
  <2>1. TopicTurn(t) /\ Awaits(t, k)
    BY <1>1, <1>7 DEF ListStep, Awaits
  <2>2. CASE NewlyAsked(k)
    BY <1>4, <2>2 DEF NewlyAsked
  <2>3. CASE k = 0
    BY <1>4, <2>3
  <2>4. ASSUME NEW j \in DOMAIN ctopics, Awaits(ctopics[j], k)
        PROVE  k <= cring'.last
    <3>1. ctopics[j].mid \in 0 .. MaxId
      <4> DEFINE nums == 0 .. MaxId
      <4>1. ctopics \in Collections(nums)
        BY DEF TypedInv, ClientSide
      <4> HIDE DEF nums
      <4>2. ctopics[j] \in ATopic(nums)
        BY <4>1, CollectionLength
      <4> QED
        BY <4>2 DEF ATopic, nums
    <3>2. k = ctopics[j].mid /\ ~ctopics[j].complete
      BY <2>4 DEF Awaits
    <3> HIDE DEF k
    <3> QED
      BY <1>5, <3>1, <3>2 DEF AskedInv
  <2>5. NewlyAsked(k) \/ k = 0 \/ \E j \in DOMAIN ctopics : Awaits(ctopics[j], k)
    <3> HIDE DEF t
    <3> QED
      BY <2>1, <1>7 DEF TopicTurn, TopicKept, TopicAsked, TopicTold, TopicConfirmed, Awaits
  <2> QED
    BY <2>2, <2>3, <2>4, <2>5
<1>8. ASSUME NEW i \in Places, cring'.place[i].type \in AskTypes
      PROVE  cring'.place[i].id <= cring'.last
  <2> DEFINE n == cring'.place[i]
             m == cring.place[i]
  <2>1. \/ m.type \in AskTypes /\ n.id = m.id
        \/ n.id = OwnId /\ cring'.last = OwnId
    BY <1>1, <1>8, RequestTurn
  <2>2. (m.type \in AskTypes => m.id <= cring'.last) /\ OwnId \in Nat
    BY <1>4, <1>5, <1>6, OwnIdLeft DEF AskedInv
  <2> HIDE DEF n, m
  <2>3. n.id <= cring'.last
    BY <2>1, <2>2
  <2> QED
    BY <2>3 DEF n
<1>9. ASSUME NEW x \in DOMAIN toGateway', x.type \in AskTypes
      PROVE  x.id <= cring'.last
  <2>1. CASE x \in DOMAIN toGateway
    BY <1>5, <1>6, <1>9, <2>1 DEF AskedInv
  <2>2. ASSUME NEW i \in Places, x = Cached(cring.place[i])
        PROVE  x.id <= cring'.last
    <3> DEFINE m == cring.place[i]
    <3>1. x.type = m.type
      BY <2>2 DEF Cached, PacketAbout
    <3>2. x.id = m.id
      BY <1>9, <2>2, <3>1 DEF Cached, PacketAbout, AskTypes, Numbered
    <3>3. m.id \in 0 .. MaxId /\ m.id <= cring.last
      BY <1>6, <1>9, <3>1 DEF AskedInv
    <3> HIDE DEF m
    <3> QED
      BY <1>5, <3>2, <3>3
  <2>3. ASSUME NEW p \in DOMAIN toClient, ReplyTo(x, p)
        PROVE  FALSE
    BY <1>9, <2>3, ReplyAsksNot
  <2> QED
    BY <1>1, <2>1, <2>2, <2>3 DEF TellStep, ToldToGateway
<1>10. /\ \A i \in Places : gring'.place[i].mos # 0 /\ gring'.place[i].tid # 0 => gring'.place[i].id <= cring'.last
       /\ \A p \in DOMAIN toClient' : p.type \in AckTypes /\ p.tid # 0 => p.id <= cring'.last
  BY <1>1, <1>2, <1>5, <1>6 DEF AskedInv, TellStep
<1> QED
  BY <1>7, <1>8, <1>9, <1>10 DEF AskedInv

(* What the gateway answers has the id of the request.                        *)
LEMMA AskedGateway ==
  ASSUME AskedInv, NamesInv, TypedInv, GatewayNext \/ GatewayTopicsNext, UNCHANGED clientVars
  PROVE  AskedInv'
<1>1. RingStep /\ SayStep /\ GatewayReady
  BY TypedReady, RingSteps, SaySteps
<1>2. cring' = cring /\ ctopics' = ctopics
  BY DEF clientVars
<1>3. ASSUME NEW i \in Places, gring'.place[i].mos # 0, gring'.place[i].tid # 0
      PROVE  gring'.place[i].id <= cring.last
  <2> DEFINE n == gring'.place[i]
             m == gring.place[i]
  <2>1. /\ IsMessage(m) /\ (Turned(n, m) \/ NewMessage(n)) /\ n.mos # 0 /\ n.tid # 0
        /\ m.mos # 0 /\ m.tid # 0 => m.id <= cring.last
    BY <1>1, <1>3 DEF RingStep, GatewayReady, IsRing, AskedInv
  <2> SUFFICES n.id <= cring.last
    OBVIOUS
  <2> HIDE DEF n, m
  <2>2. CASE Turned(n, m)
    <3>1. CASE Aged(n, m)
      <4>1. n.mos = m.mos /\ n.tid = m.tid /\ n.id = m.id
        BY <3>1 DEF Aged, Fields
      <4> QED
        BY <2>1, <4>1
    <3>2. CASE n = Blank \/ n = Reset(m)
      BY <2>1, <3>2, EmptyMessage
    <3>3. ASSUME NEW type, NEW data, NEW activity, n = ReplaceWith(m, type, data, activity)
          PROVE  n.id <= cring.last
      <4>1. n.mos = m.mos /\ n.tid = m.tid /\ n.id = m.id
        BY <2>1, <3>3 DEF ReplaceWith, IsMessage, Fields
      <4> QED
        BY <2>1, <4>1
    <3>4. ASSUME NEW type, n = [m EXCEPT !.type = type]
          PROVE  n.id <= cring.last
      <4>1. n.mos = m.mos /\ n.tid = m.tid /\ n.id = m.id
        BY <2>1, <3>4 DEF IsMessage, Fields
      <4> QED
        BY <2>1, <4>1
    <3> QED
      BY <2>2, <3>1, <3>2, <3>3, <3>4 DEF Turned
  <2>3. CASE NewMessage(n)
    <3>1. ASSUME NEW x \in DOMAIN toGateway, x.type = "SUBSCRIBE",
                 NEW a, NEW tid, NEW mid, NEW oneshot, n = Awaiting(x, a, tid, mid, oneshot)
          PROVE  n.id <= cring.last
      <4>1. n.id = x.id
        BY <3>1 DEF Awaiting
      <4> QED
        BY <3>1, <4>1 DEF AskedInv, AskTypes
    <3>2. ASSUME NEW x, NEW mid, n = Awaiting(x, "publishing", 0, mid, FALSE)
          PROVE  FALSE
      BY <2>1, <3>2 DEF Awaiting
    <3>3. CASE WaitingFor(n)
      BY <3>1, <3>2, <3>3, Zenon DEF WaitingFor
    <3>4. ASSUME NEW id, NEW a, NEW type, NEW tid, NEW name, NEW data, NEW qos, NEW oneshot,
                 \/ n = Fresh(id, a, type, tid, name, data, qos, oneshot)
                 \/ n = [Fresh(id, a, type, tid, name, data, qos, oneshot) EXCEPT !.active = FALSE]
          PROVE  FALSE
      BY <2>1, <3>4 DEF Fresh
    <3>5. \/ WaitingFor(n)
          \/ \E id, a, type, tid, name, data, qos, oneshot :
               \/ n = Fresh(id, a, type, tid, name, data, qos, oneshot)
               \/ n = [Fresh(id, a, type, tid, name, data, qos, oneshot) EXCEPT !.active = FALSE]
      BY <2>3, Zenon DEF NewMessage, Telling, Delivering, AsksWill, GivenUp
    <3> QED
      BY <3>3, <3>4, <3>5
  <2> QED
    BY <2>1, <2>2, <2>3
<1>4. ASSUME NEW p \in DOMAIN toClient', p.type \in AckTypes, p.tid # 0
      PROVE  p.id <= cring.last
  <2>1. CASE p \in DOMAIN toClient
    BY <1>4, <2>1 DEF AskedInv
  <2>2. ASSUME NEW i \in Places, p = Resent(gring.place[i])
        PROVE  p.id <= cring.last
    <3> DEFINE m == gring.place[i]
    <3>1. p.type = m.type
      BY <2>2 DEF Resent, PacketAbout
    <3>2. m.type = "SUBACK" /\ m.mos # 0
      BY <1>4, <3>1 DEF NamesInv, GatewayNames, MessageNames, AckTypes
    <3>3. p.id = m.id /\ p.tid = m.tid
      BY <2>2, <3>2 DEF Resent, PacketAbout
    <3> QED
      BY <1>4, <3>1, <3>2, <3>3 DEF AskedInv
  <2>3. ASSUME NEW type, NEW id, NEW code, p = Packet(type, id, 0, code)
        PROVE  FALSE
    BY <1>4, <2>3 DEF Packet, PacketAbout
  <2>4. ASSUME NEW x \in DOMAIN toGateway, x.type \in AskTypes, NEW type, NEW tid,
               p = PacketAbout(type, x.id, 0, 0, tid, "")
        PROVE  p.id <= cring.last
    <3>1. p.id = x.id
      BY <2>4 DEF PacketAbout
    <3> QED
      BY <2>4, <3>1 DEF AskedInv
  <2>5. ASSUME NEW x \in DOMAIN toGateway, SaidOf(p, x)
        PROVE  p.id <= cring.last
    BY <2>3, <2>4, <2>5, Zenon DEF SaidOf, AskTypes
  <2> QED
    BY <1>1, <2>1, <2>2, <2>3, <2>5 DEF SayStep, SaidToClient, Plain
<1>5. \A x \in DOMAIN toGateway' : x.type \in AskTypes => x.id <= cring.last
  BY <1>1 DEF SayStep, AskedInv
<1> QED
  BY <1>2, <1>3, <1>4, <1>5 DEF AskedInv

LEMMA AskedStep ==
  TypedInv /\ NamesInv /\ AskedInv /\ OwnNumbersLeft /\ OwnNumbersLeft' /\ [Next]_vars => AskedInv'
<1> SUFFICES ASSUME TypedInv, NamesInv, AskedInv, OwnNumbersLeft, OwnNumbersLeft', [Next]_vars
             PROVE  AskedInv'
  OBVIOUS
<1>1. CASE (ClientNext \/ ClientTopicsNext) /\ UNCHANGED <<gatewayVars, granted>>
  BY <1>1, AskedClient
<1>2. CASE (GatewayNext \/ GatewayTopicsNext) /\ UNCHANGED clientVars
  BY <1>2, AskedGateway
<1>3. CASE UNCHANGED vars
  <2>1. /\ gring' = gring /\ cring' = cring /\ toClient' = toClient /\ toGateway' = toGateway
        /\ ctopics' = ctopics
    BY <1>3 DEF vars, clientVars, gatewayVars, radioVars
  <2> QED
    BY <2>1 DEF AskedInv
<1> QED
  BY <1>1, <1>2, <1>3 DEF Next

(* An id the client knows for a name is one the gateway gave that name, as    *)
(* long as the ids the client asks with do not start over (they do when it    *)
(* starts again): whatever was lost, repeated or late, forgotten by a CONNECT *)
(* or by a gateway that started again.                                        *)
THEOREM SessionNamesGranted == Spec /\ []OwnNumbersLeft => []NamesGranted
<1> DEFINE Inv == NamesInv /\ AskedInv
<1>1. Spec => []TypedInv
  BY TypedInit, TypedStep, PTL DEF Spec
<1>2. Init => Inv
  BY NamesInit, AskedInit
<1>3. TypedInv /\ Inv /\ OwnNumbersLeft /\ OwnNumbersLeft' /\ [Next]_vars => Inv'
  BY NamesStep, AskedFree, AskedStep
<1>4. Spec /\ []OwnNumbersLeft => []Inv
  BY <1>1, <1>2, <1>3, PTL DEF Spec
<1>5. Inv => NamesGranted
  BY DEF NamesInv, ClientNames, NamesGranted, Listed
<1> QED
  BY <1>4, <1>5, PTL

----------------------------------------------------------------------------
(* The walk over the topics of a client that came back. The REGISTERs of the  *)
(* gateway and their answers have ids of S ...                                *)
AcksIn(r, c, g, S) ==
  /\ \A i \in Places : r.place[i].type = "REGISTER" => r.place[i].id \in S
  /\ \A p \in DOMAIN c : p.type = "REGISTER" => p.id \in S
  /\ \A x \in DOMAIN g : x.type = "REGACK" => x.id \in S

(* ... and, before the broker's first message, none has the id that is given  *)
(* next.                                                                      *)
FreeAcks ==
  messages = 0 =>
    /\ \A p \in DOMAIN toClient : p.type = "REGISTER" => p.id # NextId(gring.last)
    /\ \A x \in DOMAIN toGateway : x.type = "REGACK" => x.id # NextId(gring.last)

(* What the client will be asked and what it says of itself when it connects. *)
OwnSays ==
  /\ \A i \in Places :
       /\ cring.place[i].type # "REGACK"
       /\ cring.place[i].type = "CONNECT" => cring.place[i].data \in Flags
  /\ \A x \in DOMAIN toGateway : x.type = "CONNECT" => x.data \in Flags

(* The walk is at a topic, and it and those before it are announced. Or it    *)
(* has not begun, and no answer is on its way that would move it.             *)
Walking ==
  /\ giter # 0 /\ Named(gtopics[giter])
  /\ \A j \in 1 .. giter : Named(gtopics[j]) => gtopics[j].name \in announced
Expected(id) == \E i \in Places : gring.place[i].id = id /\ ~gring.place[i].ext
Unwalked ==
  /\ announced = {}
  /\ \A i \in Places : gring.place[i].type # "REGISTER"
  /\ \A p \in DOMAIN toClient : p.type = "REGISTER" => ~Expected(p.id)
  /\ \A x \in DOMAIN toGateway : x.type = "REGACK" => ~Expected(x.id)
WalkInv == gsend /\ messages = 0 => Walking \/ Unwalked
ResumeInv ==
  /\ AcksIn(gring, toClient, toGateway, 1 .. MaxId)
  /\ OwnSays /\ WalkInv

(* The search for a topic that is not a wildcard passes over wildcards only.  *)
LEMMA FirstNamedSkips ==
  ASSUME NEW topics, Len(topics) \in Nat, NEW from \in Nat \ {0}
  PROVE  LET i == FirstNamed(topics, from) IN
           /\ i = 0 => \A j \in from .. Len(topics) : IsWildcard(topics[j])
           /\ i # 0 => /\ i \in from .. Len(topics) /\ ~IsWildcard(topics[i])
                       /\ \A j \in from .. i - 1 : IsWildcard(topics[j])
<1> DEFINE I == {i \in from .. Len(topics) : ~IsWildcard(topics[i])}
           least == CHOOSE x \in I : \A y \in I : x <= y
<1>1. FirstNamed(topics, from) = IF from = 0 \/ I = {} THEN 0 ELSE least
  BY DEF FirstNamed, TopicFrom, SelectInSubSeq, Min
<1>2. I \in SUBSET Nat
  OBVIOUS
<1>3. I # {} => least \in I /\ \A y \in I : least <= y
  <2> HIDE DEF I
  <2> QED
    BY <1>2, LeastNatural
<1>4. CASE I = {}
  <2>1. FirstNamed(topics, from) = 0
    BY <1>1, <1>4
  <2>2. \A j \in from .. Len(topics) : IsWildcard(topics[j])
    BY <1>4
  <2> QED
    BY <2>1, <2>2
<1>5. CASE I # {}
  <2> DEFINE i == FirstNamed(topics, from)
  <2>1. i = least
    BY <1>1, <1>5
  <2>2. i \in I /\ \A y \in I : i <= y
    BY <1>3, <1>5, <2>1
  <2>3. i \in from .. Len(topics) /\ ~IsWildcard(topics[i])
    BY <2>2
  <2>4. \A j \in from .. i - 1 : j \in from .. Len(topics) /\ ~(i <= j)
    BY <2>3
  <2>5. \A j \in from .. i - 1 : IsWildcard(topics[j])
    BY <2>2, <2>4
  <2>6. i # 0
    BY <2>3
  <2> QED
    BY <2>3, <2>5, <2>6
<1> QED
  BY <1>4, <1>5

LEMMA FollowingSkips ==
  ASSUME NEW topics, Len(topics) \in Nat, NEW from \in 1 .. Len(topics)
  PROVE  LET i == Following(topics, from) IN
           /\ i = 0 => \A j \in from + 1 .. Len(topics) : IsWildcard(topics[j])
           /\ i # 0 => /\ i \in from + 1 .. Len(topics) /\ ~IsWildcard(topics[i])
                       /\ \A j \in from + 1 .. i - 1 : IsWildcard(topics[j])
<1>1. CASE from = Len(topics)
  <2>1. Following(topics, from) = 0
    BY <1>1 DEF Following, NextTopic, FirstNamed, TopicFrom
  <2> QED
    BY <1>1, <2>1
<1>2. CASE from # Len(topics)
  <2>1. NextTopic(topics, from) = from + 1 /\ from + 1 \in Nat \ {0}
    BY <1>2 DEF NextTopic
  <2> QED
    BY <2>1, FirstNamedSkips DEF Following
<1> QED
  BY <1>1, <1>2

(* What the gateway's steps make of the walk.                                 *)
ConnectStep ==
  /\ \E p \in DOMAIN toGateway :
       /\ p.type = "CONNECT"
       /\ gsend' = (p.data \div 2 = 0)
       /\ p.data \div 2 = 1 => gtopics' = <<>>
  /\ announced' = {}
  /\ \/ gring' = Cleared(gring)
     \/ gring' = AddWith(Cleared(gring), "willtopic", "WILLTOPICREQ", 0)
  /\ \A x \in DOMAIN toClient' : x \in DOMAIN toClient \/ x = Plain("CONNACK")
IdleStep ==
  /\ gtopics' = gtopics /\ gsend' = gsend /\ toGateway' = toGateway /\ toClient' = toClient
  /\ giter' = FirstNamed(gtopics, 1)
  /\ \/ giter' # 0 /\ announced' = announced \cup {gtopics[giter'].name}
     \/ announced' = announced /\ gring' = Looked(gring)
AckStep ==
  /\ gsend /\ gtopics' = gtopics /\ giter' = Following(gtopics, giter) /\ gsend' = (giter' # 0)
  /\ \E x \in DOMAIN toGateway : x.type = "REGACK" /\ Expected(x.id)
  /\ giter' # 0 => announced' = announced \cup {gtopics[giter'].name}
WalkStep ==
  \/ messages' = messages + 1 /\ gsend' = gsend
  \/ ConnectStep \/ IdleStep \/ AckStep
  \/ gsend' = FALSE /\ gtopics' = <<>>
  \/ gsend' = gsend /\ giter' = giter /\ announced' = announced

LEMMA WalkHandles ==
  ASSUME GatewayReady, GatewayHandler
  PROVE  WalkStep
<1>1. CASE ReceiveConnect
  <2>1. PICK p \in ToGateway("CONNECT") :
          /\ gsend' = (p.data \div 2 = 0)
          /\ gtopics' = TopicsAfter(p.data \div 2 = 1)
          /\ \/ gring' = Cleared(gring)
             \/ gring' = AddWith(Cleared(gring), "willtopic", "WILLTOPICREQ", 0)
          /\ toClient' = toClient \/ Answer(Plain("CONNACK"))
    BY <1>1 DEF ReceiveConnect
  <2>2. announced' = {}
    BY <1>1 DEF ReceiveConnect
  <2>3. p \in DOMAIN toGateway /\ p.type = "CONNECT"
    BY DEF ToGateway, BagToSet
  <2>4. p.data \div 2 = 1 => gtopics' = <<>>
    BY <2>1 DEF TopicsAfter
  <2>5. \A x \in DOMAIN toClient' : x \in DOMAIN toClient \/ x = Plain("CONNACK")
    <3>1. CASE Answer(Plain("CONNACK"))
      <4>1. DOMAIN toClient' \subseteq DOMAIN toClient \cup {Plain("CONNACK")}
        BY <3>1, PacketWritten DEF Answer
      <4> QED
        BY <4>1
    <3> QED
      BY <2>1, <3>1
  <2>6. ConnectStep
    BY <2>1, <2>2, <2>3, <2>4, <2>5 DEF ConnectStep
  <2> QED
    BY <2>6 DEF WalkStep
<1>2. CASE ReceiveWilltopic \/ ReceiveWillmsg \/ ReceiveDisconnect \/ ReceiveSearchgw
  <2>1. gsend' = gsend /\ giter' = giter /\ announced' = announced
    BY <1>2 DEF ReceiveWilltopic, ReceiveWillmsg, ReceiveDisconnect, ReceiveSearchgw, TurnAway,
                gatewayVars, topicVars
  <2> QED
    BY <2>1 DEF WalkStep
<1>3. CASE ReceivePublish \/ ReceivePubrel
  <2>1. gsend' = gsend /\ giter' = giter /\ announced' = announced
    BY <1>3 DEF ReceivePublish, ReceivePubrel, TurnAway, gatewayVars, topicVars
  <2> QED
    BY <2>1 DEF WalkStep
<1> QED
  BY <1>1, <1>2, <1>3 DEF GatewayHandler

LEMMA WalkManages ==
  ASSUME GatewayReady,
         \/ GatewayManage \/ GatewayRestart \/ PublishCallback
         \/ SubscribeCallback \/ MessageCallback \/ MessageTail
  PROVE  WalkStep
<1>1. CASE GatewayLost \/ GatewayWrite(TRUE) \/ GatewayWrite(FALSE) \/ GatewayResend \/ GatewayGiveUp
           \/ PublishCallback \/ SubscribeCallback \/ MessageTail
  <2>1. gsend' = gsend /\ giter' = giter /\ announced' = announced
    BY <1>1 DEF GatewayLost, GatewayWrite, GatewayResend, GatewayGiveUp, PublishCallback,
                SubscribeCallback, MessageTail, topicVars
  <2> QED
    BY <2>1 DEF WalkStep
<1>2. CASE GatewayRestart
  BY <1>2 DEF GatewayRestart, WalkStep
<1>3. CASE MessageCallback
  BY <1>3 DEF MessageCallback, WalkStep
<1>4. CASE GatewayIdle
  <2>1. /\ gtopics' = gtopics /\ gsend' = gsend /\ toGateway' = toGateway /\ toClient' = toClient
        /\ \/ giter' = giter /\ announced' = announced
           \/ /\ giter' = FirstNamed(gtopics, 1)
              /\ giter' = 0 => gring' = Looked(gring) /\ announced' = announced
              /\ giter' # 0 => RegisterTopic(Looked(gring), giter', TRUE)
    BY <1>4 DEF GatewayIdle, radioVars
  <2>2. CASE giter' = giter /\ announced' = announced
    BY <2>1, <2>2 DEF WalkStep
  <2>3. CASE /\ giter' = FirstNamed(gtopics, 1)
             /\ giter' = 0 => gring' = Looked(gring) /\ announced' = announced
             /\ giter' # 0 => RegisterTopic(Looked(gring), giter', TRUE)
    <3>1. giter' # 0 =>
            \/ announced' = announced \cup {gtopics[giter'].name}
            \/ gring' = Looked(gring) /\ announced' = announced
      BY <2>1, <2>3 DEF RegisterTopic
    <3>2. IdleStep
      BY <2>1, <2>3, <3>1 DEF IdleStep
    <3> QED
      BY <3>2 DEF WalkStep
  <2> QED
    BY <2>1, <2>2, <2>3
<1> QED
  BY <1>1, <1>2, <1>3, <1>4 DEF GatewayManage

(* received_regack finds room for the next REGISTER: it completed a message.  *)
LEMMA WalkAcks ==
  ASSUME GatewayReady, ReceiveTopicAck
  PROVE  WalkStep
<1>1. PICK p \in ToGateway("REGACK") :
        \/ gsend' = gsend /\ giter' = giter /\ announced' = announced
        \/ /\ Matches(gring, p.id, FALSE) # {} /\ gsend /\ gtopics' = gtopics
           /\ giter' = Following(gtopics, giter)
           /\ gsend' = (giter' # 0)
           /\ giter' # 0 => /\ gstate' = "connected"
                            /\ RegisterTopic(Deactivate(gring, Found(gring, p.id, FALSE)), giter', TRUE)
  BY DEF ReceiveTopicAck, Handle, TurnAway, gatewayVars, topicVars
<1>2. p \in DOMAIN toGateway /\ p.type = "REGACK"
  BY DEF ToGateway, BagToSet
<1>3. CASE gsend' = gsend /\ giter' = giter /\ announced' = announced
  BY <1>3 DEF WalkStep
<1>4. CASE /\ Matches(gring, p.id, FALSE) # {} /\ gsend /\ gtopics' = gtopics
           /\ giter' = Following(gtopics, giter)
           /\ gsend' = (giter' # 0)
           /\ giter' # 0 => /\ gstate' = "connected"
                            /\ RegisterTopic(Deactivate(gring, Found(gring, p.id, FALSE)), giter', TRUE)
  <2> DEFINE i == Found(gring, p.id, FALSE)
  <2>1. i \in Places /\ gring.place[i].id = p.id /\ ~gring.place[i].ext
    BY <1>4, FoundOwn
  <2>2. \E j \in Places : gring.place[j].id = p.id /\ ~gring.place[j].ext
    <3> HIDE DEF i
    <3> QED
      BY <2>1
  <2>3. Expected(p.id)
    BY <2>2 DEF Expected
  <2>4. giter' # 0 => RegisterTopic(Deactivate(gring, i), giter', TRUE) /\ gstate' = "connected"
    BY <1>4
  <2> HIDE DEF i
  <2>5. CanAdd(Deactivate(gring, i))
    <3> DEFINE m == gring.place[i]
    <3>1. IsMessage(m) /\ IsRing(gring)
      BY <2>1 DEF GatewayReady, IsRing
    <3>2. ~Deactivate(gring, i).place[i].active
      BY <2>1, <3>1 DEF Deactivate, IsRing, IsMessage, Fields
    <3> QED
      BY <2>1, <3>2 DEF CanAdd, Active
  <2>6. giter' # 0 => announced' = announced \cup {gtopics[giter'].name}
    BY <1>4, <2>4, <2>5 DEF RegisterTopic
  <2>7. AckStep
    BY <1>2, <1>4, <2>3, <2>6 DEF AckStep
  <2> QED
    BY <2>7 DEF WalkStep
<1> QED
  BY <1>1, <1>3, <1>4

LEMMA WalkSteps ==
  ASSUME GatewayReady, GatewayNext \/ GatewayTopicsNext
  PROVE  WalkStep
<1>1. CASE ReceiveTopic \/ ReceiveSubscribe \/ ReceiveDelivered \/ ReceiveRecorded \/ ReceiveCompleted
  <2>1. gsend' = gsend /\ giter' = giter /\ announced' = announced
    BY <1>1 DEF ReceiveTopic, ReceiveSubscribe, ReceiveDelivered, ReceiveRecorded, ReceiveCompleted,
                Handle, TurnAway, gatewayVars, topicVars
  <2> QED
    BY <2>1 DEF WalkStep
<1> QED
  BY <1>1, WalkHandles, WalkManages, WalkAcks
     DEF GatewayNext, GatewayTopicsNext, GatewayTopicsHandler

(* What becomes of a message of the gateway, as far as the walk can tell.     *)
LEMMA TurnedId ==
  ASSUME NEW m, IsMessage(m), NEW n, Turned(n, m)
  PROVE  /\ n.type = "REGISTER" => m.type = "REGISTER" /\ n.id = m.id
         /\ n.id = 0 \/ (n.id = m.id /\ n.ext = m.ext)
<1>1. CASE Aged(n, m)
  BY <1>1 DEF Aged, Fields
<1>2. CASE n = Blank \/ n = Reset(m)
  BY <1>2, EmptyMessage
<1>3. ASSUME NEW type, type # "REGISTER", NEW data, NEW activity, n = ReplaceWith(m, type, data, activity)
      PROVE  n.type # "REGISTER" /\ n.id = m.id /\ n.ext = m.ext
  BY <1>3 DEF ReplaceWith, IsMessage, Fields
<1>4. ASSUME NEW type, type # "REGISTER", n = [m EXCEPT !.type = type]
      PROVE  n.type # "REGISTER" /\ n.id = m.id /\ n.ext = m.ext
  BY <1>4 DEF IsMessage, Fields
<1>5. \A type \in {"WILLMSGREQ", "PUBREL", "PUBREC", "SUBACK"} : type # "REGISTER"
  OBVIOUS
<1> QED
  BY <1>1, <1>2, <1>3, <1>4, <1>5 DEF Turned

LEMMA NewId ==
  ASSUME NEW n, NewMessage(n)
  PROVE  /\ n.type = "REGISTER" => Telling(n)
         /\ n.ext \/ n.id = NextId(gring.last)
<1>1. CASE Telling(n)
  <2>1. \E a, tid, name, qos : n = Fresh(NextId(gring.last), a, "REGISTER", tid, name, 0, qos, FALSE)
    BY <1>1, Zenon DEF Telling
  <2>2. n.id = NextId(gring.last)
    BY <2>1 DEF Fresh
  <2> QED
    BY <1>1, <2>2
<1>2. ASSUME NEW a, NEW type, type # "REGISTER", NEW tid, NEW name, NEW data, NEW qos, NEW oneshot,
             \/ n = Fresh(NextId(gring.last), a, type, tid, name, data, qos, oneshot)
             \/ n = [Fresh(NextId(gring.last), a, type, tid, name, data, qos, oneshot) EXCEPT !.active = FALSE]
      PROVE  n.type # "REGISTER" /\ n.id = NextId(gring.last)
  BY <1>2 DEF Fresh
<1>3. ASSUME NEW x, NEW a, NEW tid, NEW oneshot, n = Awaiting(x, a, tid, mids', oneshot)
      PROVE  n.type # "REGISTER" /\ n.ext
  BY <1>3 DEF Awaiting
<1>4. CASE WaitingFor(n)
  BY <1>3, <1>4, Zenon DEF WaitingFor
<1>5. \A type \in {"PUBLISH", "WILLTOPICREQ", "none"} : type # "REGISTER"
  OBVIOUS
<1>6. CASE Delivering(n) \/ AsksWill(n) \/ GivenUp(n)
  <2>1. \E type \in {"PUBLISH", "WILLTOPICREQ", "none"} : \E a, tid, name, data, qos, oneshot :
          \/ n = Fresh(NextId(gring.last), a, type, tid, name, data, qos, oneshot)
          \/ n = [Fresh(NextId(gring.last), a, type, tid, name, data, qos, oneshot)
                    EXCEPT !.active = FALSE]
    BY <1>6, Zenon DEF Delivering, AsksWill, GivenUp
  <2> QED
    BY <1>2, <1>5, <2>1, Zenon
<1> QED
  BY <1>1, <1>4, <1>6 DEF NewMessage

(* A REGISTER the gateway writes is a message of its ring.                    *)
LEMMA RegisterSaid ==
  ASSUME SayStep, NEW p \in DOMAIN toClient', p.type = "REGISTER"
  PROVE  \/ p \in DOMAIN toClient
         \/ \E i \in Places : gring.place[i].type = "REGISTER" /\ gring.place[i].id = p.id
<1>1. CASE p \in DOMAIN toClient
  BY <1>1
<1>2. ASSUME NEW x \in DOMAIN toGateway, SaidOf(p, x)
      PROVE  FALSE
  <2>1. ASSUME NEW code, p = Packet("PUBACK", x.id, 0, code)
        PROVE  FALSE
    BY <2>1 DEF Packet, PacketAbout
  <2>2. CASE p = Packet("PUBCOMP", x.id, 0, 0)
    BY <2>2 DEF Packet, PacketAbout
  <2>3. ASSUME NEW code, p = Packet("SUBACK", x.id, 0, code)
        PROVE  FALSE
    BY <2>3 DEF Packet, PacketAbout
  <2>4. ASSUME NEW j \in DOMAIN gtopics', NEW type \in {"REGACK", "SUBACK"},
               p = PacketAbout(type, x.id, 0, 0, gtopics'[j].id, "")
        PROVE  FALSE
    BY <2>4 DEF PacketAbout
  <2> QED
    BY <1>2, <2>1, <2>2, <2>3, <2>4, Zenon DEF SaidOf
<1>3. ASSUME NEW i \in Places, p = Packet("PUBACK", gring.place[i].id, 0, 0)
      PROVE  FALSE
  BY <1>3 DEF Packet, PacketAbout
<1>4. ASSUME NEW type \in {"CONNACK", "DISCONNECT", "GWINFO"}, p = Plain(type)
      PROVE  FALSE
  BY <1>4 DEF Plain, Packet, PacketAbout
<1>5. ASSUME NEW i \in Places, p = Resent(gring.place[i])
      PROVE  gring.place[i].type = "REGISTER" /\ gring.place[i].id = p.id
  <2>1. p.type = gring.place[i].type
    BY <1>5 DEF Resent, PacketAbout
  <2>2. gring.place[i].type \notin {"WILLTOPICREQ", "WILLMSGREQ"}
    BY <2>1
  <2> QED
    BY <1>5, <2>1, <2>2 DEF Resent, PacketAbout
<1> QED
  BY <1>1, <1>2, <1>3, <1>4, <1>5 DEF SayStep, SaidToClient

(* A REGACK the client writes answers a REGISTER.                             *)
LEMMA AckTold ==
  ASSUME TellStep, OwnSays, NEW x \in DOMAIN toGateway', x.type = "REGACK"
  PROVE  \/ x \in DOMAIN toGateway
         \/ \E p \in DOMAIN toClient : p.type = "REGISTER" /\ x.id = p.id
<1>1. CASE x \in DOMAIN toGateway
  BY <1>1
<1>2. ASSUME NEW i \in Places, x = Cached(cring.place[i])
      PROVE  FALSE
  <2>1. x.type = cring.place[i].type
    BY <1>2 DEF Cached, PacketAbout
  <2> QED
    BY <2>1 DEF OwnSays
<1>3. ASSUME NEW p \in DOMAIN toClient, ReplyTo(x, p)
      PROVE  p.type = "REGISTER" /\ x.id = p.id
  <2>1. CASE p.type = "REGISTER" /\ x = Packet("REGACK", p.id, 0, 0)
    BY <2>1 DEF Packet, PacketAbout
  <2>2. ASSUME NEW code, x = Packet("PUBACK", p.id, 0, code)
        PROVE  FALSE
    BY <2>2 DEF Packet, PacketAbout
  <2>3. CASE x = Packet("PUBCOMP", p.id, 0, 0)
    BY <2>3 DEF Packet, PacketAbout
  <2> QED
    BY <1>3, <2>1, <2>2, <2>3, Zenon DEF ReplyTo
<1> QED
  BY <1>1, <1>2, <1>3 DEF TellStep, ToldToGateway

(* A CONNECT the client writes has flags of the application.                  *)
LEMMA ConnectTold ==
  ASSUME TellStep, OwnSays, NEW x \in DOMAIN toGateway', x.type = "CONNECT"
  PROVE  x.data \in Flags
<1>1. CASE x \in DOMAIN toGateway
  BY <1>1 DEF OwnSays
<1>2. ASSUME NEW i \in Places, x = Cached(cring.place[i])
      PROVE  x.data \in Flags
  <2>1. x.type = cring.place[i].type /\ x.data = cring.place[i].data
    BY <1>2 DEF Cached, PacketAbout
  <2> QED
    BY <2>1 DEF OwnSays
<1>3. ASSUME NEW p \in DOMAIN toClient, ReplyTo(x, p)
      PROVE  FALSE
  <2>1. \E type \in {"REGACK", "PUBACK", "PUBCOMP"} : \E code : x = Packet(type, p.id, 0, code)
    BY <1>3, Zenon DEF ReplyTo
  <2>2. \A type, code : Packet(type, p.id, 0, code).type = type
    BY DEF Packet, PacketAbout
  <2> QED
    BY <2>1, <2>2
<1> QED
  BY <1>1, <1>2, <1>3 DEF TellStep, ToldToGateway

LEMMA OwnSaysOn ==
  ASSUME ClientReady, OwnSays, OwnRingStep, TellStep
  PROVE  OwnSays'
<1>1. ASSUME NEW i \in Places
      PROVE  /\ cring'.place[i].type # "REGACK"
             /\ cring'.place[i].type = "CONNECT" => cring'.place[i].data \in Flags
  <2> DEFINE n == cring'.place[i]
             m == cring.place[i]
  <2>1. IsMessage(m) /\ m.type # "REGACK" /\ (m.type = "CONNECT" => m.data \in Flags)
    BY DEF OwnSays, ClientReady, IsRing
  <2>2. Became(n, m) \/ AddedMessage(n)
    BY DEF OwnRingStep
  <2> HIDE DEF n, m
  <2>3. CASE Aged(n, m)
    <3>1. n.data = m.data /\ n.type = m.type
      BY <2>3 DEF Aged, Fields
    <3> QED
      BY <2>1, <3>1 DEF n
  <2>4. CASE n = Blank \/ n = Reset(m)
    <3>1. n.type = "none"
      BY <2>4, EmptyMessage
    <3> QED
      BY <3>1 DEF n
  <2>5. ASSUME NEW type \in {"WILLTOPIC", "WILLMSG", "PUBREL"}, NEW data, NEW activity,
               n = ReplaceWith(m, type, data, activity)
        PROVE  n.type \notin {"REGACK", "CONNECT"}
    <3>1. n.type = type
      BY <2>1, <2>5 DEF ReplaceWith, IsMessage, Fields
    <3> QED
      BY <3>1
  <2>6. ASSUME NEW type, NEW a, NEW tid, NEW name, NEW data, NEW qos, NEW oneshot,
               n = Fresh(OwnId, a, type, tid, name, data, qos, oneshot)
        PROVE  n.type = type /\ n.data = data
    BY <2>6 DEF Fresh
  <2>7. ASSUME NEW x, n = Recording(x)
        PROVE  n.type = "PUBREC"
    BY <2>7 DEF Recording
  <2>8. CASE AddedMessage(n)
    <3>1. \/ \E x : n = Recording(x)
          \/ \E type \in {"REGISTER", "SUBSCRIBE", "DISCONNECT", "SEARCHGW", "PUBLISH", "none"} :
              \E a, tid, name, data, qos, oneshot :
               n = Fresh(OwnId, a, type, tid, name, data, qos, oneshot)
          \/ \E flags \in Flags, a \in {"willtopic", "none"} : \E qos :
               n = Fresh(OwnId, a, "CONNECT", 0, "", flags, qos, FALSE)
      BY <2>8, Zenon DEF AddedMessage, AddedRequest
    <3>2. ASSUME NEW type \in {"REGISTER", "SUBSCRIBE", "DISCONNECT", "SEARCHGW", "PUBLISH", "none"},
                 n.type = type
          PROVE  n.type \notin {"REGACK", "CONNECT"}
      BY <3>2
    <3>3. ASSUME NEW flags \in Flags, NEW a, NEW qos,
                 n = Fresh(OwnId, a, "CONNECT", 0, "", flags, qos, FALSE)
          PROVE  n.type = "CONNECT" /\ n.data \in Flags
      BY <3>3 DEF Fresh
    <3>4. n.type \notin {"REGACK", "CONNECT"} \/ (n.type = "CONNECT" /\ n.data \in Flags)
      <4>1. CASE \E x : n = Recording(x)
        BY <2>7, <4>1
      <4>2. CASE \E type \in {"REGISTER", "SUBSCRIBE", "DISCONNECT", "SEARCHGW", "PUBLISH", "none"} :
                  \E a, tid, name, data, qos, oneshot :
                   n = Fresh(OwnId, a, type, tid, name, data, qos, oneshot)
        BY <2>6, <3>2, <4>2, Zenon
      <4> QED
        BY <3>1, <3>3, <4>1, <4>2, Zenon
    <3> QED
      BY <3>4 DEF n
  <2> QED
    BY <2>2, <2>3, <2>4, <2>5, <2>8 DEF Became, n
<1> QED
  BY <1>1, ConnectTold DEF OwnSays

(* A REGISTER the gateway adds has the id it gives next.                      *)
LEMMA AcksGateway ==
  ASSUME GatewayReady, RingStep, SayStep, NEW S, NEW T, S \subseteq T,
         AcksIn(gring, toClient, toGateway, S),
         gring'.last = NextId(gring.last) => NextId(gring.last) \in T
  PROVE  AcksIn(gring', toClient', toGateway', T)
<1>1. ASSUME NEW i \in Places, gring'.place[i].type = "REGISTER"
      PROVE  gring'.place[i].id \in T
  <2> DEFINE n == gring'.place[i]
             m == gring.place[i]
  <2>1. /\ IsMessage(m) /\ n.type = "REGISTER"
        /\ Turned(n, m) \/ (NewMessage(n) /\ gring'.last = NextId(gring.last))
        /\ m.type = "REGISTER" => m.id \in S
    BY <1>1 DEF RingStep, GatewayReady, IsRing, AcksIn
  <2> HIDE DEF n, m
  <2>2. Turned(n, m) => n.id \in T
    BY <2>1, TurnedId
  <2>3. ASSUME NewMessage(n) /\ gring'.last = NextId(gring.last)
        PROVE  n.id \in T
    <3>1. \E a, tid, name, qos : n = Fresh(NextId(gring.last), a, "REGISTER", tid, name, 0, qos, FALSE)
      <4>1. Telling(n)
        BY <2>1, <2>3, NewId
      <4> QED
        BY <4>1, Zenon DEF Telling
    <3>2. n.id = NextId(gring.last)
      BY <3>1 DEF Fresh
    <3> QED
      BY <2>3, <3>2
  <2>4. n.id \in T
    BY <2>1, <2>2, <2>3
  <2> QED
    BY <2>4 DEF n
<1>2. ASSUME NEW p \in DOMAIN toClient', p.type = "REGISTER"
      PROVE  p.id \in T
  BY <1>2, RegisterSaid DEF AcksIn
<1>3. \A x \in DOMAIN toGateway' : x.type = "REGACK" => x.id \in T
  BY DEF SayStep, AcksIn
<1> QED
  BY <1>1, <1>2, <1>3 DEF AcksIn

LEMMA AcksClient ==
  ASSUME OwnSays, TellStep, gring' = gring, NEW S, AcksIn(gring, toClient, toGateway, S)
  PROVE  AcksIn(gring', toClient', toGateway', S)
<1>1. \A p \in DOMAIN toClient' : p.type = "REGISTER" => p.id \in S
  BY DEF TellStep, AcksIn
<1>2. ASSUME NEW x \in DOMAIN toGateway', x.type = "REGACK"
      PROVE  x.id \in S
  BY <1>2, AckTold DEF AcksIn
<1> QED
  BY <1>1, <1>2 DEF AcksIn

(* An answer that would not move the walk stays one that would not.           *)
LEMMA ExpectedOn ==
  ASSUME GatewayReady, RingStep, NEW id, id # 0, id # NextId(gring.last), Expected(id)'
  PROVE  Expected(id)
<1>1. PICK i \in Places : gring'.place[i].id = id /\ ~gring'.place[i].ext
  BY DEF Expected
<1> DEFINE n == gring'.place[i]
           m == gring.place[i]
<1>2. IsMessage(m) /\ (Turned(n, m) \/ NewMessage(n)) /\ n.id = id /\ ~n.ext
  BY <1>1 DEF RingStep, GatewayReady, IsRing
<1> HIDE DEF n, m
<1>3. n.id = m.id /\ n.ext = m.ext
  BY <1>2, TurnedId, NewId
<1>4. m.id = id /\ ~m.ext
  BY <1>2, <1>3
<1> QED
  BY <1>4 DEF Expected, m

(* A repeated CONNECT: the ring is cleared and no answer that is on its way   *)
(* has the id of what it asks for.                                            *)
LEMMA UnwalkedConnects ==
  ASSUME GatewayReady, SayStep, ConnectStep, AcksIn(gring, toClient, toGateway, 1 .. MaxId),
         messages = 0, FreeAcks
  PROVE  Unwalked'
<1>1. \A i \in Places :
        \/ gring'.place[i].id = 0 /\ gring'.place[i].type # "REGISTER"
        \/ gring'.place[i].id = NextId(gring.last) /\ gring'.place[i].type # "REGISTER"
  <2>1. ASSUME NEW m, NEW n, n = Reset(m)
        PROVE  n.id = 0 /\ n.type # "REGISTER"
    BY <2>1, EmptyMessage
  <2>2. CASE gring' = Cleared(gring)
    BY <2>1, <2>2, ClearedRing DEF GatewayReady
  <2>3. CASE gring' = AddWith(Cleared(gring), "willtopic", "WILLTOPICREQ", 0)
    <3>1. ASSUME NEW n, AsksWill(n)
          PROVE  n.id = NextId(gring.last) /\ n.type # "REGISTER"
      <4>1. PICK type : type = "WILLTOPICREQ" /\ type # "REGISTER"
        OBVIOUS
      <4>2. \E a, tid, name, data, qos, oneshot :
              n = Fresh(NextId(gring.last), a, type, tid, name, data, qos, oneshot)
        BY <3>1, <4>1, Zenon DEF AsksWill
      <4> QED
        BY <4>1, <4>2 DEF Fresh
    <3>2. \A j \in Places : gring'.place[j] = Reset(gring.place[j]) \/ AsksWill(gring'.place[j])
      BY <2>3, RingAsksWill
    <3> QED
      BY <2>1, <3>1, <3>2
  <2> QED
    BY <2>2, <2>3 DEF ConnectStep
<1>2. ASSUME NEW id \in 1 .. MaxId, id # NextId(gring.last)
      PROVE  ~Expected(id)'
  <2>1. id # 0 /\ id # NextId(gring.last)
    BY <1>2
  <2> QED
    BY <1>1, <2>1 DEF Expected
<1>3. ASSUME NEW p \in DOMAIN toClient', p.type = "REGISTER"
      PROVE  ~Expected(p.id)'
  <2>1. p # Plain("CONNACK")
    <3>1. Plain("CONNACK").type = "CONNACK"
      BY DEF Plain, Packet, PacketAbout
    <3> HIDE DEF Plain
    <3>2. "CONNACK" # "REGISTER"
      OBVIOUS
    <3> QED
      BY <1>3, <3>1, <3>2
  <2>2. p \in DOMAIN toClient
    BY <2>1 DEF ConnectStep
  <2> QED
    BY <1>2, <1>3, <2>2 DEF AcksIn, FreeAcks
<1>4. ASSUME NEW x \in DOMAIN toGateway', x.type = "REGACK"
      PROVE  ~Expected(x.id)'
  BY <1>2, <1>4 DEF SayStep, AcksIn, FreeAcks
<1>5. announced' = {}
  BY DEF ConnectStep
<1> QED
  BY <1>1, <1>3, <1>4, <1>5 DEF Unwalked

(* Other steps that announce nothing leave a walk that has not begun.         *)
LEMMA UnwalkedStays ==
  ASSUME GatewayReady, RingStep, SayStep, Unwalked, announced' = announced,
         AcksIn(gring, toClient, toGateway, 1 .. MaxId), messages = 0, FreeAcks
  PROVE  Unwalked'
<1>1. ASSUME NEW i \in Places
      PROVE  gring'.place[i].type # "REGISTER"
  <2> DEFINE n == gring'.place[i]
             m == gring.place[i]
  <2>1. IsMessage(m) /\ (Turned(n, m) \/ NewMessage(n)) /\ m.type # "REGISTER"
    BY DEF RingStep, GatewayReady, IsRing, Unwalked
  <2> HIDE DEF n, m
  <2>2. ~Telling(n)
    BY DEF Telling, Unwalked
  <2>3. n.type # "REGISTER"
    BY <2>1, <2>2, TurnedId, NewId
  <2> QED
    BY <2>3 DEF n
<1>2. ASSUME NEW id \in 1 .. MaxId, id # NextId(gring.last), ~Expected(id)
      PROVE  ~Expected(id)'
  <2>1. id # 0
    OBVIOUS
  <2> QED
    BY <1>2, <2>1, ExpectedOn
<1>3. ASSUME NEW p \in DOMAIN toClient', p.type = "REGISTER"
      PROVE  ~Expected(p.id)'
  <2>1. p \in DOMAIN toClient
    BY <1>3, RegisterSaid DEF Unwalked
  <2> QED
    BY <1>2, <1>3, <2>1 DEF AcksIn, FreeAcks, Unwalked
<1>4. ASSUME NEW x \in DOMAIN toGateway', x.type = "REGACK"
      PROVE  ~Expected(x.id)'
  BY <1>2, <1>4 DEF SayStep, AcksIn, FreeAcks, Unwalked
<1>5. announced' = {}
  BY DEF Unwalked
<1> QED
  BY <1>1, <1>3, <1>4, <1>5 DEF Unwalked

(* The walk begins anew at its first topic.                                   *)
LEMMA WalkBegins ==
  ASSUME GatewayReady, gtopics' = gtopics, giter' = FirstNamed(gtopics, 1), giter' # 0,
         gtopics[giter'].name \in announced'
  PROVE  Walking'
<1>1. Len(gtopics) \in Nat
  BY CollectionLength DEF GatewayReady
<1>2. PICK i : i = FirstNamed(gtopics, 1)
  OBVIOUS
<1>3. PICK from \in Nat \ {0} : from = 1
  OBVIOUS
<1>4. /\ i \in from .. Len(gtopics) /\ ~IsWildcard(gtopics[i])
      /\ \A j \in from .. i - 1 : IsWildcard(gtopics[j])
  <2>1. i = FirstNamed(gtopics, from) /\ i # 0
    BY <1>2, <1>3
  <2> QED
    BY <1>1, <2>1, FirstNamedSkips
<1>5. giter' = i
  BY <1>2
<1>6. ASSUME NEW j \in 1 .. i, Named(gtopics[j])
      PROVE  gtopics[j].name \in announced'
  <2>1. CASE j = i
    BY <1>5, <2>1
  <2>2. CASE j # i
    <3>1. j \in from .. i - 1
      BY <1>1, <1>3, <1>4, <2>2
    <3> QED
      BY <1>4, <1>6, <3>1 DEF Named
  <2> QED
    BY <2>1, <2>2
<1> QED
  BY <1>4, <1>5, <1>6 DEF Walking, Named

(* The walk goes on to the next topic.                                        *)
LEMMA WalkGoesOn ==
  ASSUME GatewayReady, Walking, AckStep, giter' # 0
  PROVE  Walking'
<1>1. Len(gtopics) \in Nat /\ giter \in 1 .. Len(gtopics)
  BY CollectionLength DEF GatewayReady, Walking
<1>2. /\ giter' \in giter + 1 .. Len(gtopics) /\ ~IsWildcard(gtopics[giter'])
      /\ \A j \in giter + 1 .. giter' - 1 : IsWildcard(gtopics[j])
  BY <1>1, FollowingSkips DEF AckStep
<1>3. gtopics' = gtopics /\ announced' = announced \cup {gtopics[giter'].name}
  BY DEF AckStep
<1>4. ASSUME NEW j \in 1 .. giter', Named(gtopics[j])
      PROVE  gtopics[j].name \in announced'
  <2>1. CASE j \in 1 .. giter
    BY <1>3, <1>4, <2>1 DEF Walking
  <2>2. CASE j = giter'
    BY <1>3, <2>2
  <2>3. CASE j \in giter + 1 .. giter' - 1
    BY <1>2, <1>4, <2>3 DEF Named
  <2>4. j \in 1 .. giter \/ j = giter' \/ j \in giter + 1 .. giter' - 1
    <3>1. PICK k : k = giter'
      OBVIOUS
    <3>2. k \in Nat /\ giter \in Nat /\ j \in 1 .. k
      <4>1. k \in giter + 1 .. Len(gtopics) /\ j \in 1 .. k
        BY <1>2, <3>1
      <4> QED
        BY <1>1, <4>1
    <3>3. j \in 1 .. giter \/ j = k \/ j \in giter + 1 .. k - 1
      BY <3>2
    <3> QED
      BY <3>1, <3>3
  <2> QED
    BY <2>1, <2>2, <2>3, <2>4
<1> QED
  BY <1>2, <1>3, <1>4 DEF Walking, Named

LEMMA WalkStays ==
  ASSUME GatewayReady, Walking, Grown(gtopics', gtopics), giter' = giter, announced' = announced
  PROVE  Walking'
<1>1. Len(gtopics) \in Nat /\ giter \in 1 .. Len(gtopics)
  BY CollectionLength DEF GatewayReady, Walking
<1>2. ASSUME NEW j \in 1 .. giter
      PROVE  /\ gtopics'[j].name = gtopics[j].name
             /\ Named(gtopics[j])' <=> Named(gtopics[j])
  <2>1. j \in 1 .. Len(gtopics)
    BY <1>1
  <2> QED
    BY <2>1 DEF Grown, Named, IsWildcard
<1> QED
  BY <1>1, <1>2 DEF Walking, Named, IsWildcard

LEMMA WalkGateway ==
  ASSUME GatewayReady, RingStep, SayStep, TopicStep, WalkStep, BrokerStep, messages \in Nat,
         AcksIn(gring, toClient, toGateway, 1 .. MaxId), WalkInv, FreeAcks
  PROVE  WalkInv'
<1> SUFFICES ASSUME gsend', messages' = 0
             PROVE  Walking' \/ Unwalked'
  BY DEF WalkInv
<1>1. messages = 0 /\ messages' # messages + 1
  BY DEF BrokerStep
<1>2. CASE ConnectStep
  BY <1>1, <1>2, UnwalkedConnects
<1>3. CASE IdleStep
  <2>1. gsend /\ (Walking \/ Unwalked)
    BY <1>1, <1>3 DEF IdleStep, WalkInv
  <2>2. CASE giter' # 0 /\ announced' = announced \cup {gtopics[giter'].name}
    BY <1>3, <2>2, WalkBegins DEF IdleStep
  <2>3. CASE announced' = announced /\ Unwalked
    BY <1>1, <2>3, UnwalkedStays
  <2>4. CASE announced' = announced /\ Walking
    <3>1. Len(gtopics) \in Nat /\ giter \in 1 .. Len(gtopics) /\ ~IsWildcard(gtopics[giter])
      BY <2>4, CollectionLength DEF GatewayReady, Walking, Named
    <3>2. PICK from \in Nat \ {0} : from = 1
      OBVIOUS
    <3> DEFINE i == FirstNamed(gtopics, from)
    <3>3. /\ i = 0 => \A j \in from .. Len(gtopics) : IsWildcard(gtopics[j])
          /\ i # 0 => /\ i \in from .. Len(gtopics) /\ ~IsWildcard(gtopics[i])
                      /\ \A j \in from .. i - 1 : IsWildcard(gtopics[j])
      BY <3>1, FirstNamedSkips
    <3>9. i = FirstNamed(gtopics, 1)
      BY <3>2
    <3> HIDE DEF i
    <3>4. i # 0 /\ i \in 1 .. giter
      BY <3>1, <3>2, <3>3
    <3>5. giter' = i /\ gtopics' = gtopics
      BY <1>3, <3>9 DEF IdleStep
    <3>6. gtopics[giter'].name \in announced'
      BY <2>4, <3>2, <3>3, <3>4, <3>5 DEF Walking, Named
    <3> QED
      BY <3>4, <3>5, <3>6, <3>9, WalkBegins
  <2> QED
    BY <1>3, <2>1, <2>2, <2>3, <2>4 DEF IdleStep
<1>4. CASE AckStep
  <2>1. Walking
    BY <1>1, <1>4 DEF AckStep, WalkInv, Unwalked
  <2>2. giter' # 0
    BY <1>4 DEF AckStep
  <2> QED
    BY <1>4, <2>1, <2>2, WalkGoesOn
<1>5. CASE gsend' = gsend /\ giter' = giter /\ announced' = announced
  <2>1. CASE Unwalked
    BY <1>1, <1>5, <2>1, UnwalkedStays
  <2>2. CASE Walking
    <3>1. Grown(gtopics', gtopics)
      BY DEF TopicStep, Forgotten
    <3> QED
      BY <1>5, <2>2, <3>1, WalkStays
  <2> QED
    BY <1>1, <1>5, <2>1, <2>2 DEF WalkInv
<1> QED
  BY <1>1, <1>2, <1>3, <1>4, <1>5 DEF WalkStep

LEMMA WalkClient ==
  ASSUME TellStep, OwnSays, WalkInv, UNCHANGED gatewayVars
  PROVE  WalkInv'
<1>1. /\ gring' = gring /\ gsend' = gsend /\ messages' = messages /\ gtopics' = gtopics
      /\ giter' = giter /\ announced' = announced
  BY DEF gatewayVars, topicVars
<1>2. Walking => Walking'
  BY <1>1 DEF Walking, Named, IsWildcard
<1>3. \A id : Expected(id)' <=> Expected(id)
  BY <1>1 DEF Expected
<1>4. ASSUME Unwalked PROVE Unwalked'
  <2>1. ASSUME NEW p \in DOMAIN toClient', p.type = "REGISTER"
        PROVE  ~Expected(p.id)'
    BY <1>3, <1>4, <2>1 DEF TellStep, Unwalked
  <2>2. ASSUME NEW x \in DOMAIN toGateway', x.type = "REGACK"
        PROVE  ~Expected(x.id)'
    BY <1>3, <1>4, <2>2, AckTold DEF Unwalked
  <2> QED
    BY <1>1, <1>4, <2>1, <2>2 DEF Unwalked
<1> QED
  BY <1>1, <1>2, <1>4 DEF WalkInv

LEMMA ResumeInit == Init => ResumeInv /\ AcksIn(gring, toClient, toGateway, 1 .. gring.last)
<1> SUFFICES ASSUME Init
             PROVE  ResumeInv /\ AcksIn(gring, toClient, toGateway, 1 .. gring.last)
  OBVIOUS
<1>1. DOMAIN toClient = {} /\ DOMAIN toGateway = {}
  BY NoPackets DEF Init
<1>2. \A i \in Places : EmptyRing.place[i] = Blank
  BY DEF EmptyRing
<1>3. Blank.type = "none"
  BY DEF Blank
<1>4. \A i \in Places : gring.place[i] = Blank /\ cring.place[i] = Blank
  BY <1>2, InitialRing DEF Init, GInit, CInit
<1>5. \A i \in Places : gring.place[i].type = "none" /\ cring.place[i].type = "none"
  BY <1>3, <1>4
<1>6. gsend = FALSE
  BY DEF Init, GInit
<1>7. \A S : AcksIn(gring, toClient, toGateway, S)
  BY <1>1, <1>5 DEF AcksIn
<1>8. OwnSays
  BY <1>1, <1>5 DEF OwnSays
<1> QED
  BY <1>6, <1>7, <1>8 DEF ResumeInv, WalkInv

LEMMA ResumeStep == TypedInv /\ ResumeInv /\ FreeAcks /\ [Next]_vars => ResumeInv'
<1> SUFFICES ASSUME TypedInv, ResumeInv, FreeAcks, [Next]_vars PROVE ResumeInv'
  OBVIOUS
<1>1. /\ GatewayReady /\ ClientReady /\ OwnSays /\ WalkInv
      /\ AcksIn(gring, toClient, toGateway, 1 .. MaxId)
  BY TypedReady DEF ResumeInv
<1>2. CASE (ClientNext \/ ClientTopicsNext) /\ UNCHANGED <<gatewayVars, granted>>
  <2>1. OwnRingStep /\ TellStep /\ gring' = gring
    BY <1>1, <1>2, OwnRingSteps, TellSteps DEF gatewayVars
  <2> DEFINE S == 1 .. MaxId
  <2>2. AcksIn(gring', toClient', toGateway', S)
    <3> AcksIn(gring, toClient, toGateway, S)
      BY <1>1
    <3> HIDE DEF S
    <3> QED
      BY <1>1, <2>1, AcksClient
  <2>3. OwnSays' /\ WalkInv'
    BY <1>1, <1>2, <2>1, OwnSaysOn, WalkClient
  <2> QED
    BY <2>2, <2>3 DEF ResumeInv
<1>3. CASE (GatewayNext \/ GatewayTopicsNext) /\ UNCHANGED clientVars
  <2>1. RingStep /\ SayStep /\ TopicStep /\ WalkStep /\ BrokerStep
    BY <1>1, <1>3, RingSteps, SaySteps, WalkSteps, BrokerSteps
  <2>2. messages \in Nat
    BY MaxMessagesAssumption DEF TypedInv, GatewaySide, BrokerTyped, MessageNumbers
  <2>3. WalkInv'
    BY <1>1, <2>1, <2>2, WalkGateway
  <2>4. OwnSays'
    BY <1>1, <1>3, <2>1 DEF OwnSays, SayStep, clientVars
  <2> DEFINE S == 1 .. MaxId
  <2>5. AcksIn(gring', toClient', toGateway', S)
    <3>1. gring.last \in 0 .. MaxId
      BY LastTyped
    <3>2. NextId(gring.last) \in S /\ NextId(gring.last) \in 0 .. MaxId
      BY <3>1, NextIdType
    <3>3. AcksIn(gring, toClient, toGateway, S)
      BY <1>1
    <3> HIDE DEF S
    <3> QED
      BY <1>1, <2>1, <3>2, <3>3, AcksGateway
  <2> QED
    BY <2>3, <2>4, <2>5 DEF ResumeInv
<1>4. CASE UNCHANGED vars
  <2>1. /\ gring' = gring /\ cring' = cring /\ toClient' = toClient /\ toGateway' = toGateway
        /\ gsend' = gsend /\ messages' = messages /\ gtopics' = gtopics
        /\ giter' = giter /\ announced' = announced
    BY <1>4 DEF vars, clientVars, gatewayVars, radioVars, topicVars
  <2> QED
    BY <2>1 DEF ResumeInv, AcksIn, OwnSays, WalkInv, Walking, Unwalked, Expected, Named, IsWildcard
<1> QED
  BY <1>2, <1>3, <1>4 DEF Next

(* A client is taken to know its topics when the walk has passed the last.    *)
LEMMA ResumeAction ==
  TypedInv /\ ResumeInv /\ [Next]_vars =>
    [(gsend /\ ~gsend' /\ messages = 0 /\ gtopics' # <<>>) =>
       {gtopics[i].name : i \in {j \in DOMAIN gtopics : ~IsWildcard(gtopics[j])}}
         \subseteq announced]_vars
<1> SUFFICES ASSUME TypedInv, ResumeInv, Next, gsend, ~gsend', messages = 0, gtopics' # <<>>,
                    NEW j \in DOMAIN gtopics, ~IsWildcard(gtopics[j])
             PROVE  gtopics[j].name \in announced
  OBVIOUS
<1>1. GatewayReady /\ WalkInv /\ OwnSays
  BY TypedReady DEF ResumeInv
<1>2. (GatewayNext \/ GatewayTopicsNext) /\ UNCHANGED clientVars
  BY DEF Next, gatewayVars
<1>3. WalkStep
  BY <1>1, <1>2, WalkSteps
<1>4. ~ConnectStep
  <2> SUFFICES ASSUME ConnectStep PROVE FALSE
    OBVIOUS
  <2>1. PICK p \in DOMAIN toGateway :
          /\ p.type = "CONNECT" /\ gsend' = (p.data \div 2 = 0)
          /\ p.data \div 2 = 1 => gtopics' = <<>>
    BY DEF ConnectStep
  <2>2. p.data \in 0 .. 3
    BY <1>1, <2>1, FlagsAssumption DEF OwnSays
  <2> DEFINE half == p.data \div 2
  <2>3. half = 0 \/ half = 1
    BY <2>2
  <2> HIDE DEF half
  <2>4. gsend' = (half = 0) /\ half # 1
    BY <2>1 DEF half
  <2> QED
    BY <2>3, <2>4
<1>5. AckStep
  BY <1>3, <1>4 DEF WalkStep, IdleStep
<1>6. Walking
  BY <1>1, <1>5 DEF AckStep, WalkInv, Unwalked
<1>7. Len(gtopics) \in Nat /\ DOMAIN gtopics = 1 .. Len(gtopics) /\ giter \in 1 .. Len(gtopics)
  BY <1>6, CollectionLength, <1>1 DEF GatewayReady, Walking
<1>8. Following(gtopics, giter) = 0
  BY <1>5 DEF AckStep
<1>9. \A k \in giter + 1 .. Len(gtopics) : IsWildcard(gtopics[k])
  BY <1>7, <1>8, FollowingSkips
<1>10. j \in 1 .. giter
  BY <1>7, <1>9
<1> QED
  BY <1>6, <1>10 DEF Walking, Named

(* A returning client that is taken to know all its topics was told of each,  *)
(* if no message of the broker came meanwhile and as long as no REGISTER and  *)
(* no answer to one that is on its way has an id about to be given: the       *)
(* answer would be taken for that to another message.                         *)
THEOREM SessionResumes == Spec /\ []FreeAcks => ResumeComplete
<1>1. Spec => []TypedInv
  BY TypedInit, TypedStep, PTL DEF Spec
<1>2. Init => ResumeInv
  BY ResumeInit
<1>3. Spec /\ []FreeAcks => []ResumeInv
  BY <1>1, <1>2, ResumeStep, PTL DEF Spec
<1> QED
  BY <1>1, <1>3, ResumeAction, PTL DEF Spec, ResumeComplete

(* Until ids start over, none has.                                            *)
LEMMA AcksFirst ==
  TypedInv /\ ResumeInv /\ NumbersLeft /\ NumbersLeft'
    /\ AcksIn(gring, toClient, toGateway, 1 .. gring.last) /\ [Next]_vars
    => AcksIn(gring, toClient, toGateway, 1 .. gring.last)'
<1> DEFINE S == 1 .. gring.last
           T == 1 .. gring'.last
<1> SUFFICES ASSUME TypedInv, ResumeInv, NumbersLeft, NumbersLeft',
                    AcksIn(gring, toClient, toGateway, S), [Next]_vars
             PROVE  AcksIn(gring', toClient', toGateway', T)
  BY DEF AcksIn
<1>1. GatewayReady /\ ClientReady /\ OwnSays
  BY TypedReady DEF ResumeInv
<1>2. CASE (ClientNext \/ ClientTopicsNext) /\ UNCHANGED <<gatewayVars, granted>>
  <2>1. TellStep /\ gring' = gring
    BY <1>1, <1>2, TellSteps DEF gatewayVars
  <2>2. S = T
    BY <2>1
  <2> HIDE DEF S, T
  <2> QED
    BY <1>1, <2>1, <2>2, AcksClient
<1>3. CASE (GatewayNext \/ GatewayTopicsNext) /\ UNCHANGED clientVars
  <2>1. RingStep /\ SayStep
    BY <1>1, <1>3, RingSteps, SaySteps
  <2>2. gring.last \in 0 .. MaxId /\ NextId(gring.last) = gring.last + 1
    BY LastTyped, NextIdLeft DEF NumbersLeft
  <2>3. gring'.last \in {gring.last, gring.last + 1}
    <3>1. grestarts' # grestarts + 1
      BY LastTyped DEF NumbersLeft
    <3> QED
      BY <2>1, <2>2, <3>1 DEF RingStep
  <2>4. S \subseteq T
    BY <2>2, <2>3
  <2>5. gring'.last = NextId(gring.last) => NextId(gring.last) \in T
    BY <2>2
  <2> HIDE DEF S, T
  <2> QED
    BY <1>1, <2>1, <2>4, <2>5, AcksGateway
<1>4. CASE UNCHANGED vars
  <2>1. gring' = gring /\ toClient' = toClient /\ toGateway' = toGateway
    BY <1>4 DEF vars, clientVars, gatewayVars, radioVars
  <2> QED
    BY <2>1
<1> QED
  BY <1>2, <1>3, <1>4 DEF Next

LEMMA AcksFree ==
  TypedInv /\ AcksIn(gring, toClient, toGateway, 1 .. gring.last) /\ NumbersLeft => FreeAcks
<1> SUFFICES ASSUME TypedInv, AcksIn(gring, toClient, toGateway, 1 .. gring.last), NumbersLeft
             PROVE  NextId(gring.last) \notin 1 .. gring.last
  BY DEF FreeAcks, AcksIn
<1>1. gring.last \in Nat /\ NextId(gring.last) = gring.last + 1
  BY LastTyped, NextIdLeft DEF NumbersLeft
<1> QED
  BY <1>1

(* In particular, until its ids start over or it restarts.                    *)
THEOREM SessionResumesAtFirst == Spec /\ []NumbersLeft => ResumeComplete
<1> DEFINE Inv == ResumeInv /\ AcksIn(gring, toClient, toGateway, 1 .. gring.last)
<1>1. Spec => []TypedInv
  BY TypedInit, TypedStep, PTL DEF Spec
<1>2. Init => Inv
  BY ResumeInit
<1>3. TypedInv /\ Inv /\ NumbersLeft => FreeAcks
  BY AcksFree
<1>4. TypedInv /\ Inv /\ NumbersLeft /\ NumbersLeft' /\ [Next]_vars => Inv'
  BY <1>3, ResumeStep, AcksFirst
<1>5. Spec /\ []NumbersLeft => []Inv
  BY <1>1, <1>2, <1>4, PTL DEF Spec
<1>6. Spec /\ []NumbersLeft => []FreeAcks
  BY <1>1, <1>3, <1>5, PTL
<1> QED
  BY <1>6, SessionResumes, PTL
====
