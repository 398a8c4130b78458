---- MODULE GatewayLock ----
(* m_mosquittolock of ServerMqttSn (servermqtt.cpp) and what it protects: the *)
(* main thread, whose handlers take the lock and call functions that take it  *)
(* again (manage_connections with send_will, register_topic, advertise;       *)
(* received_regack with register_topic), and mosquitto's thread, which walks  *)
(* the topics of each connection in gateway_message_callback with the one     *)
(* iterator that all threads share. A return code of the mutex is never       *)
(* looked at. The constructor makes a recursive mutex; initialise() puts an   *)
(* error checking one in its place before mosquitto's thread starts, and that *)
(* is the mutex of this module.                                               *)
EXTENDS Naturals

CONSTANT Topics \* how many topics a connection has

VARIABLES
  owner,    \* the thread that holds the mutex, or "none"
  section,  \* for each thread, the locked sections of the code it is in
  freed,    \* history: the threads whose outermost section lost the mutex
  iterator, \* m_topic_iterator: the number of a topic, 0 for NULL
  visited   \* history: topics of the connection the callback looked at

vars == <<owner, section, freed, iterator, visited>>

Threads == {"main", "mosquitto"}

Init ==
  /\ owner = "none"
  /\ section = [t \in Threads |-> 0]
  /\ freed = {}
  /\ iterator = 0
  /\ visited = {}

(* pthread_mutex_lock: the thread that holds the mutex gets EDEADLK and goes *)
(* on, another one waits.                                                    *)
Lock(t) ==
  /\ owner \in {"none", t}
  /\ owner' = t
  /\ section' = [section EXCEPT ![t] = @ + 1]
  /\ freed' = IF section[t] = 0 THEN freed \ {t} ELSE freed

(* pthread_mutex_unlock: the thread that holds the mutex frees it, in         *)
(* whatever section it is; one that does not hold it gets EPERM and goes on.  *)
Unlock(t) ==
  /\ section' = [section EXCEPT ![t] = @ - 1]
  /\ owner' = IF owner = t THEN "none" ELSE owner
  /\ freed' = IF section[t] > 1 THEN freed \cup {t} ELSE freed

First == iterator' = 1
Following == iterator' = IF iterator \in 1 .. Topics - 1 THEN iterator + 1 ELSE 0

(* A handler or manage_connections, and the functions it calls; sections are *)
(* at most two deep.                                                         *)
MainLock ==
  /\ section["main"] < 2
  /\ Lock("main")
  /\ UNCHANGED <<iterator, visited>>

MainUnlock ==
  /\ section["main"] > 0
  /\ Unlock("main")
  /\ UNCHANGED <<iterator, visited>>

(* complete_client_connection starts the iterator, received_regack moves it. *)
MainIterate ==
  /\ section["main"] = 1
  /\ First \/ Following
  /\ UNCHANGED <<owner, section, freed, visited>>

(* gateway_message_callback takes the lock and turns to the first connection. *)
WalkBegin ==
  /\ section["mosquitto"] = 0
  /\ Lock("mosquitto")
  /\ First
  /\ visited' = {}

(* A topic that does not match.                                              *)
WalkStep ==
  /\ section["mosquitto"] = 1
  /\ iterator # 0
  /\ visited' = visited \cup {iterator}
  /\ Following
  /\ UNCHANGED <<owner, section, freed>>

(* A wildcard that matches has do_publish_topic register the name, in a       *)
(* locked section of register_topic.                                          *)
WalkRegister ==
  /\ section["mosquitto"] = 1
  /\ iterator # 0
  /\ Lock("mosquitto")
  /\ UNCHANGED <<iterator, visited>>

(* register_topic is left and the walk turns to the next connection.         *)
WalkRegistered ==
  /\ section["mosquitto"] = 2
  /\ Unlock("mosquitto")
  /\ First
  /\ visited' = {}

(* The end of the last connection's topics.                                  *)
WalkEnd ==
  /\ section["mosquitto"] = 1
  /\ iterator = 0
  /\ Unlock("mosquitto")
  /\ UNCHANGED <<iterator, visited>>

Next ==
  \/ MainLock
  \/ MainUnlock
  \/ MainIterate
  \/ WalkBegin
  \/ WalkStep
  \/ WalkRegister
  \/ WalkRegistered
  \/ WalkEnd

Spec == Init /\ [][Next]_vars
----------------------------------------------------------------------------
TypeOK ==
  /\ owner \in Threads \cup {"none"}
  /\ section \in [Threads -> 0 .. 2]
  /\ freed \subseteq Threads
  /\ iterator \in 0 .. Topics
  /\ visited \subseteq 1 .. Topics

(* The sections that this mutex protects: an inner one, and an outermost one  *)
(* until an inner one has been left.                                          *)
Protected(t) == section[t] = 2 \/ (section[t] = 1 /\ t \notin freed)

(* "Using topic iterators, lock section" (servermqtt.cpp:1153): a walk that   *)
(* reaches the end of a connection's topics has looked at every one of them,  *)
(* so no subscriber is passed over.                                           *)
WalkComplete == [][WalkEnd => visited = 1 .. Topics]_vars
====
