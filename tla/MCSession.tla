---- MODULE MCSession ----
(* The instances of Session that TLC checks. *)
EXTENDS Session, TLC

(* connect, publish, disconnect, search, restart, register, subscribe *)
Budgets(c, p, d, s, r, g, u) ==
  [connect |-> c, publish |-> p, disconnect |-> d, search |-> s, restart |-> r,
   register |-> g, subscribe |-> u]

ComeAndGo == Budgets(2, 0, 1, 1, 1, 0, 0)
PublishAgain == Budgets(2, 1, 0, 0, 0, 0, 0)
SearchWhileConnecting == Budgets(1, 0, 0, 1, 0, 0, 0)
NameTopics == Budgets(1, 1, 0, 0, 0, 1, 1)

(* The gateway has nothing of the client, or it holds topics of it, one of   *)
(* them subscribed to.                                                       *)
NothingKept == {<<>>}
Topic(name, id) == Completed(NewTopic(name, id, id), id)
Subscription(name, id, qos) == [Topic(name, id) EXCEPT !.subscribed = TRUE, !.qos = qos]
SomeKept ==
  NothingKept
    \cup {<<Topic(n[1], 1), Subscription(n[2], 2, 0)>> :
            n \in {k \in Names \X Names : k[1] # k[2]}}
    \cup {<<Topic(n, 1), Subscription(f, 2, 1)>> : n \in Names, f \in Filters}
    \cup {<<Subscription(f, 1, 2)>> : f \in Filters}

(* The names of topics are not told apart by anything else.                  *)
SameNames == Permutations(Names)

(* Packets overtake each other unless a publish of QoS 2 is in a ring.       *)
Qos2 ==
  \/ \E i \in Places : cring.place[i].type \in {"PUBLISH", "PUBREL"} /\ cring.place[i].qos = 2
  \/ \E i \in Places : gring.place[i].mos # 0 /\ gring.place[i].qos = 2
InOrderWithQos2 ==
  Qos2 => BagCardinality(toGateway) <= 1 /\ BagCardinality(toClient) <= 1

(* Message ids have not wrapped. A client of which topics were kept only      *)
(* connects, or also registers a topic if two names were kept. A client that  *)
(* subscribes does not publish. What a client without topics does that        *)
(* connects without the clean flag is left to SessionConnect.                 *)
Returned == mids = 0 /\ brokersubs # {}
Bounded ==
  /\ cring.last < MaxId /\ gring.last < MaxId
  /\ (gsend => gtopics # <<>>)
  /\ made["publish"] = 0 \/ made["subscribe"] = 0
  /\ (Returned /\ CallsMade > 1 =>
        CallsMade = 2 /\ made["register"] = 1 /\ brokersubs \subseteq Names)
====
