---- MODULE Topics ----
(* MqttTopic and MqttTopicCollection (mqtttopic.cpp): the topics of a         *)
(* connection, which its client and the gateway each keep. A collection is a  *)
(* sequence in the order of its linked list; the iterator is a place in it,   *)
(* 0 for NULL. Topics are only ever appended or all forgotten at once.        *)
(*                                                                            *)
(* A topic's name is a name or a filter; the one filter modelled is "#",      *)
(* which matches every name. Deleting one topic is left out: a client does    *)
(* it only for a REGACK with an error, and the gateway sends none.            *)
EXTENDS Naturals, Sequences
LOCAL INSTANCE SequencesExt

CONSTANTS
  Names,     \* names of topics
  Filters,   \* names with wildcards
  MaxTopicId \* the largest topic id, 0xFFFF

ASSUME NamesAssumption == Names \cap Filters = {}
ASSUME MaxTopicIdAssumption == MaxTopicId \in Nat \ {0}

NoName == ""
TopicNames == Names \cup Filters
TopicIds == 0 .. MaxTopicId

IsWildcard(t) == t.name \in Filters
MatchesName(t, name) == t.name = name \/ IsWildcard(t)

(* set_topic() on a new MqttTopic. A wildcard has no id.                      *)
NewTopic(name, id, mid) ==
  [name |-> name, id |-> IF name \in Filters THEN 0 ELSE id, mid |-> mid,
   complete |-> FALSE, subscribed |-> FALSE, qos |-> 0]

Completed(t, id) ==
  [t EXCEPT !.complete = TRUE, !.id = IF IsWildcard(t) THEN @ ELSE id]

(* get_topic(), by name and by id: its place, 0 if there is none.             *)
ByName(topics, name) == SelectInSeq(topics, LAMBDA t : t.name = name)
ById(topics, id) == SelectInSeq(topics, LAMBDA t : t.id = id)

(* reg_topic(): the client asks for a name. A name it has is left as it is;   *)
(* a wildcard is complete at once unless it is the first topic.               *)
RegTopic(topics, name, mid) ==
  LET t == NewTopic(name, 0, mid)
  IN IF ByName(topics, name) # 0 THEN topics
     ELSE Append(topics, IF topics # <<>> /\ IsWildcard(t) THEN Completed(t, 0) ELSE t)

(* Changed: whatever the message id. *)
MutantIncomplete(topics, mid) == SelectInSeq(topics, LAMBDA t : ~t.complete)

(* complete_topic(): the first incomplete topic with the message id.          *)
Incomplete(topics, mid) == SelectInSeq(topics, LAMBDA t : t.mid = mid /\ ~t.complete)
CompleteTopic(topics, mid, id) ==
  LET i == Incomplete(topics, mid)
  IN IF i = 0 THEN topics ELSE [topics EXCEPT ![i] = Completed(@, id)]

(* create_topic(): the gateway told the client of a topic. The first topic is *)
(* not completed.                                                             *)
CreateTopic(topics, name, id) ==
  LET t == NewTopic(name, id, 0)
  IN IF topics = <<>> THEN <<t>>
     ELSE IF ById(topics, id) # 0 THEN topics ELSE Append(topics, Completed(t, id))

(* The id add_topic() gives: one more than the largest, in 16 bits.           *)
NextTopicId(topics) ==
  LET after[i \in 0 .. Len(topics)] ==
        IF i = 0 THEN 0
        ELSE IF topics[i].id >= after[i - 1] THEN (topics[i].id + 1) % (MaxTopicId + 1)
        ELSE after[i - 1]
  IN IF topics = <<>> THEN 1 ELSE after[Len(topics)]

(* add_topic(): the gateway's topic of that name, which is added if it is new.*)
AddTopic(topics, name, mid) ==
  IF ByName(topics, name) # 0 THEN topics
  ELSE LET id == NextTopicId(topics)
       IN Append(topics, Completed(NewTopic(name, id, mid), id))

(* iterate_first_topic() and get_next_topic().                                *)
FirstTopic(topics) == IF topics = <<>> THEN 0 ELSE 1
NextTopic(topics, i) == IF i = 0 \/ i = Len(topics) THEN 0 ELSE i + 1

(* The first topic from place i on that passes Test, as a loop of             *)
(* get_next_topic() finds it; and the one that is not a wildcard.             *)
TopicFrom(topics, i, Test(_)) ==
  IF i = 0 THEN 0 ELSE SelectInSubSeq(topics, i, Len(topics), Test)
FirstNamed(topics, i) == TopicFrom(topics, i, LAMBDA t : ~IsWildcard(t))

(* The values a collection takes.                                             *)
Collections(mids) ==
  Seq([name : TopicNames, id : TopicIds, mid : mids, complete : BOOLEAN,
       subscribed : BOOLEAN, qos : 0 .. 2])
====
