# A TLA+ model of MqttSn

MqttSn is an MQTT-SN client, and a gateway to mosquitto, for small packet
radios. This directory models its protocol engine: the queue between the radio
driver's thread and the handlers, the ring of in-flight messages, the session
of a client with its gateway (connecting, will handshake, publishing,
registering and subscribing to topics, deliveries from the broker), the
keep-alive, the client's table of gateways, and the lock the gateway shares with
mosquitto's thread. TLC checks the models on small instances; TLAPS proves the
safety of the receive queue, the message ring, the gateway table and the
keep-alive for every instance, which sections the gateway's lock protects, and of
the session that success is never reported without the broker's confirmation,
that a message of the broker is taken for delivered only if the application was
given it, that the gateway waits for no callback that is over, and that on either
side a handshake has a message that drives it.

Check a module with `tlc -config X.cfg M` (the table below pairs them) and the
proofs with `tlapm PacketQueueProof.tla`, and so for the other seven modules
named `...Proof`.

## The system

| Part | Source | State it keeps | Operations |
| --- | --- | --- | --- |
| Receive queue | `mqttsnembed.cpp` | `m_queue`, `m_queue_head`, `m_mqttlock` | `queue_received` on the driver's thread; `dispatch_queue` on the main thread |
| Message ring | `mqttconnection.cpp`, `.hpp` | 20 messages, `m_queuehead`, `m_queuetail`, `m_lastmessageid` | `add_message`, `get_active_message`, `get_message`, `get_mos_message`, `clear_queue`; per message `sending`, `has_expired`, `has_failed`, `set_message`, `set_inactive` |
| Client session | `clientmqtt.cpp` | one connection (state, ring, topics, will), gateway table, sleep duration | `connect`, `disconnect`, `publish`, `subscribe`, `register_topic`, `searchgw`, `ping`, `manage_connections`, one handler per packet |
| Gateway session | `servermqtt.cpp` | a list of connections (state, ring, topics, will, `m_sendtopics`), broker state | one handler per packet, `manage_connections`, three mosquitto callbacks |
| Keep-alive | `mqttconnection.cpp`, both sessions | `m_lastactivity`, `m_last_ping`, `m_last_advertised` | `update_activity`, `lost_contact`, `send_another_ping`, `ping`, `advertise` |
| Gateway lock | `servermqtt.cpp` | `m_mosquittolock`, the topic iterator of each connection | nested lock and unlock, `iterate_first_topic`, `get_next_topic` |
| Topics | `mqtttopic.cpp` | a doubly linked list, an iterator; one collection per connection on either side | `add_topic`, `reg_topic`, `create_topic`, `complete_topic`, `free_topics`, `match` |
| Gateway table | `clientmqtt.cpp`, `mqttsnembed.hpp` | `m_gwinfo`, 5 entries; the gateway of the connection | `add_gateway`, `update_gateway`, `get_gateway`, `get_known_gateway`, ... |
| Radio drivers | another repository | | `send`, `listen_mode`, a callback per packet |
| Applications | `mqttclientapp.cpp`, `mqttserverapp.cpp`, `autoclient.cpp`, `command.cpp` | | terminal programs around the library |

How they meet. The driver's thread calls `queue_received`, which fills a slot
under `m_mqttlock`. The application's main loop calls `manage_connections`: it
looks at the time, sends or resends the current message of the ring, and ends
in `dispatch_queue`, which calls one handler per waiting packet. Handlers change
the connection and its ring, and the gateway's write answers at once. On the
gateway mosquitto has a thread of its own: its publish callback completes
messages in the ring, its message callback walks the topics of every
connection. Handlers, `manage_connections` and callbacks exclude each other by
`m_mosquittolock`, up to the point where a function that locks it a second time
unlocks it.

What is hard in it:

- three threads, with one read outside a lock and an error checking mutex that
  is locked twice;
- a radio that loses, delays and repeats, and a receive queue that overwrites
  and reorders; no packet says which connection or which run of a program it
  belongs to;
- one ring for every exchange of a connection: a handler takes "the active
  message" for the one it answers;
- time-outs that race late answers, on both sides, with a different state left
  on each;
- restarts of either side: nothing is persistent;
- two lists of topics that must mean the same, which one side forgets at every
  connect and the other only when told, and an iterator two threads share;
- two activity stamps per connection which different packets refresh.

What makes each part correct: the queue keeps or overwrites packets and never
invents, repeats or strands one; the ring is stop-and-wait, fair and
unambiguous; a side that is connecting has something to retry and stops in the
end; success is never reported without the broker's confirmation; an id the client
has for a topic is the gateway's, and a message of the broker counts as delivered
only when it was; contact is lost with a silent peer and with no other; the
gateway in use is known; a locked section is alone.

## The modules

| Module | Models | Notes |
| --- | --- | --- |
| `PacketStore` | the promise of the receive queue | abstract: packets are pending, dispatched or lost |
| `PacketQueue` | `queue_received` and `dispatch_queue` | implements `PacketStore` (`StoreSpec`) |
| `PacketQueueProof` | | theorems about `PacketQueue` |
| `MessageRing` | `MqttMessage`, `MqttMessageCollection` | operators on a ring held in a variable; no variable of its own |
| `Inflight` | a ring at work in a client | the calls and handlers reduced to what they do to the ring; `InflightProof` has theorems |
| `Radio` | the drivers and queues between the two sides | two bags of packets; `PacketStore` without overwriting in place |
| `Topics` | `MqttTopic`, `MqttTopicCollection` | operators on sequences; no variable of its own |
| `Client` | `ClientMqttSn`, connecting and publishing | extends `MessageRing`, `Radio`, `Topics` |
| `ClientTopics` | `ClientMqttSn`, topics and deliveries | extends `Client` |
| `Gateway` | `ServerMqttSn` for one client, connecting and publishing | extends `MessageRing`, `Radio`, `Topics` |
| `GatewayTopics` | `ServerMqttSn`, topics and deliveries; two mosquitto callbacks | extends `Gateway` |
| `Session` | client and gateway over the radio | `MCSession` has the instances |
| `MessageRingProof` | | lemmas about the operators of `MessageRing` and `Radio` |
| `Delivery` | the promise about the broker's messages | abstract: messages are handed over, delivered, confirmed; `Session` implements it (`DeliverySpec`) |
| `SessionProof` | | theorems about `Session`: publishes, callbacks, handshakes |
| `SessionTopicsProof` | | theorems about `Session`: types, deliveries, names, resumptions |
| `KeepAlive` | stamps, pings, advertisements on a clock | `KeepAliveProof` has theorems |
| `GatewayTable` | `m_gwinfo`, `connect` and the two programs that use them | `GatewayTableProof` has theorems |
| `GatewayLock` | `m_mosquittolock` and the shared iterator | `GatewayLockProof` has theorems |

**PacketQueue.** A packet is its arrival number. The driver's thread takes the
lock, advances the head, then stores and unlocks; the main thread reads the head
(before the lock, as `dispatch_queue` does), locks, and makes one step per slot.
`build` says how `m_queue_head++` and the wrap reach memory: the Makefile
compiles without optimisation, which gives two stores ("split"); a compiler may
also keep the value in a register ("whole"). In a split build `queue_ptr` may be
read as `MQTT_MAX_QUEUE`: `DispatchBeyond` is that turn, with the layout g++
gives the class (the flag of the slot behind the array is `m_queue_head`).
`arrived`, `log`, `dispatched` and `lost` are history.

**MessageRing, Inflight.** The two scans, `add_message` from the tail and
`get_active_message` from the head, are `FirstFrom`; `Looked` is what the second
does to the ends. `Reset` keeps `m_qos`, as `reset()` does; `ReplaceWith` keeps
`m_topicid`. `has_expired` depends on the clock, so a user of the ring may take it
at any moment. In `Inflight` publishes stand for every request that sends a packet.
Two calls do not, and are actions: `SubscribeKnown`, which leaves a message without
content in the ring (`clientmqtt.cpp:1050`), and `RegisterKnown`, which resets the
message it added and so burns an id (987). `Turns` is a pass of
`manage_connections` that changes no message: there is none, it has no content, its
first write was refused, or its timer runs. `younger` and `burned` are history:
what was added, and which ids were burned, after each message.

**Topics.** A collection is a sequence in the order of its list, the iterator a
place in it. Topics are appended or all forgotten at once, which is all the
code does in practice: one topic is deleted only for a REGACK with an error, and
the gateway sends none. The one filter is `#`.

**Client, Gateway, Session.** A step is a call of the application, a handler,
one pass of `manage_connections` up to its call of `dispatch_queue`, or a
mosquitto callback; each holds its lock throughout, with one exception.
`register_topic` locks `m_mosquittolock` a second time and its unlock frees it
(`servermqtt.cpp:1546`). On the main thread that is the last thing a step does
to the record; in `do_publish_topic` it is not. So a message of the broker that
gives a name an id is two steps, `DeliverNew` in `MessageCallback` and later
`MessageTail`, with `handing` in between: handlers may clear the ring, begin
another connection, or free the topic, whose id `MessageTail` then reads from
freed memory (`HandingAfter` makes it any). Mosquitto has one thread, so no
other callback runs meanwhile. A write puts the packet on the bag of the other
side, or loses it, whatever it returns; a bag is full at `Capacity`.
`lost_contact` and time-outs are choices. Packets carry what handlers tell
apart: id, QoS, flags or will number. `made["restart"]` numbers the runs of the
client's program, so that `stored` and `reported` (history) name a publish. A
gateway that answers nothing (its broker is away) is a gateway whose answers are
lost. `ClientTopics` and `GatewayTopics` are the second half of the same two
classes: they add actions and no variable. A client that comes back without the
clean flag is told its topics one by one: `GatewayIdle`
(`complete_client_connection`) starts the iterator, `ReceiveTopicAck` moves it,
and so does `MessageCallback` on mosquitto's thread. `received`, `confirmed` and
`announced` are history: what the application was given, what the gateway takes
for delivered, which names it has queued a REGISTER for. So is `granted`: the
ids the gateway ever gave to names. `Delivery` is what the two promise of the
first two: a message may be delivered again or never, but it is confirmed only
after it was delivered, and delivered only if the broker handed it over.
`DeliverySpec` maps its `delivered` to the numbers in `received`.

**KeepAlive.** Stamps are ages in seconds, cut off where the code stops telling
them apart. Both loops turn in every second. `mode` says whether packets may be
lost, programs may stop or restart, the client publishes, and whether it came
without the clean flag.

**GatewayTable.** The ring shrinks to "the CONNECT is active" (`pending`), which
GWINFO may end. An entry is active as `is_active` has it: always when permanent,
by the advertised time when it advertises, by its flag otherwise. Two programs
use the table: `autoclient`, whose loop connects and whose callback connects
again, and `mqttclientapp`, whose user connects and adds gateways. Contact that
is lost with a gateway whose entry is gone is a read through NULL
(`clientmqtt.cpp:809`): state "crashed". CONNACK and DISCONNECT are taken from
whatever gateway they come from.

**GatewayLock.** `Lock` and `Unlock` are pthread's for an error checking mutex,
whose errors the code ignores: `initialise()` puts one in the place of the
constructor's recursive mutex (`servermqtt.cpp:1076`) before it starts mosquitto's
thread (1111), so this is the mutex of the running program. Sections are two deep
on either thread: on the main thread as in `manage_connections` calling `send_will`
or `register_topic`, on mosquitto's as in `do_publish_topic` calling
`register_topic` (`WalkRegister`, `WalkRegistered`). `freed` is history: whose
outermost section has lost the mutex.

`PROJECT.json` maps each definition to its lines. Operators named `Mutant...`
are not part of the models: each is a definition with a plausible mistake, and
shows which property notices it.

## The runs

| Run | Module | Bounds | Shows |
| --- | --- | --- | --- |
| `PacketQueue` | `PacketQueue` | 3 slots, 7 packets, both builds | types, mutual exclusion, conservation, at most once, oldest overwritten, order within a pass, only received packets (whole build), nothing stranded, `PacketStore` implemented |
| `PacketQueuePhantom` | `PacketQueue` | 3 slots, 5 packets, split build | **violated**: a handler is called for bytes behind the array |
| `Inflight` | `Inflight` | 3 places, 2 in use, ids to 3, 1 burned, 2 attempts | stop-and-wait, oldest first, unique ids; every message leaves, if first writes are taken and no subscribe of a known topic blocks the ring |
| `SessionConnect` | `MCSession` | 2 connects, a disconnect, a search and a client restart, 3 calls in all; a gateway restart; 1 packet each way | whoever is connecting has a message that drives it; attempts end, on both sides, if first writes are taken |
| `SessionPublish` | `MCSession` | 2 connects, 1 publish of any QoS, a gateway restart, 2 packets each way | no false success; the head of the gateway's ring waits for nothing that is over |
| `Registration` | `MCSession` | a connect and 2 of a registration, a subscription and a publish; two names and `#`; up to two kept topics; a message of the broker; 1 packet each way | an id the client knows is one the gateway gave that name; `Delivery` implemented; the callback a message waits for comes; resumptions are complete; types |
| `RegistrationLate` | `MCSession` | the same, 2 packets each way | **violated**: a late clean CONNECT forgets a name its client registered since |
| `SessionSearch` | `MCSession` | a connect and a search | **violated**: GWINFO completes the CONNECT |
| `KeepAlive` | `KeepAlive` | keepalive 4 s, advertisements every 21 s, four modes | pings hold an idle connection; only silent idle clients are dropped; half open connections end; gone clients are noticed |
| `KeepAlivePublisher` | `KeepAlive` | keepalive 2 s, no failures | **violated**: a publishing client is dropped |
| `GatewayTable` | `GatewayTable` | 3 gateways, 2 of which advertise, 2 places, both programs | no gateway heard is kept twice; the user's gateways stay; the one in use is known; `autoclient` reaches a gateway that runs |
| `GatewayLockErrorcheck` | `GatewayLock` | 3 topics | **violated**: an inner unlock frees the mutex and a walk misses a topic |

Why the bounds are enough:

- Three slots let a pass start behind, at and before the head, and seven packets
  fill the ring twice over and once more, with overwriting in each round.
- With three places the tail meets holes before, between and behind active
  messages. `MaxInflight` is below the ring's size on purpose (see `OldestFirst`).
  Three ids wrap within one filling of the ring. `UniqueIds` needs no fewer ids than
  messages in use and ids burned while one waits (`MaxBurned`), as with 65535 and
  20: an application would have to register known topics 65515 times meanwhile.
- In the sessions a ring of two holds the exchange and one message more; two
  connects are what it takes for an answer of the first attempt to arrive in the
  second. `SessionConnect` uses one attempt per message: repeated packets come
  from writes that failed but arrived. `SessionPublish` lets packets overtake
  each other, except while a message of QoS 2 is in a ring (`InOrderWithQos2`):
  its four packets make an instance with overtaking too large. Message ids do
  not wrap where publishes are made: reuse after 65535 messages is not what these
  runs are about.
- In `Registration` packets keep their order (`Capacity` 1) and may be lost or
  repeated. The gateway starts with nothing, or with topics a client left there:
  two names of which one is subscribed to, a name and `#`, or `#` alone. Two
  names are what it takes for an id to be taken for another's.
  `RegistrationLate` has the same bounds and two packets each way, which is what
  a CONNECT needs to be late. No passing run makes the claim it breaks:
  `NamesAgree`, that the gateway still has the id. `NamesGranted`, that it gave
  it, is proved for any radio. `Bounded` leaves out behaviours in which message
  ids run out, and lets a client of which topics are kept do no more than
  connect and register once, and one that subscribes not publish; the names are
  symmetric. With packets that overtake each other a REGACK of an earlier life
  of the client is possible, which the restart of message ids at 1 allows
  (`mqttconnection.cpp:82`).
- In `GatewayTable` three gateways meet two places, so entries are replaced, and
  one gateway does not advertise, so its entry never runs out by time.
- With a keepalive of four seconds four pings fit into its fivefold, since one
  leaves every `Duration + 1` seconds; with a shorter one fewer. The
  advertisement interval is above five keepalives in `HalfOpenEnds`: with
  shorter ones advertisements of a gateway that lost its record hold the half
  open connection, by `received_advertised`.

**Deadlock** is checked in every run but `GatewayTable`, whose client may have
crashed while every gateway has stopped; elsewhere both main loops always have a
step.

**Fairness.** `PacketQueue`: the main loops call `dispatch_queue` for ever, and
a thread inside `queue_received` leaves it; arrivals are not fair. `Inflight`:
the main loop calls `manage_connections` for ever. `Session`: both main loops
do, a timer runs out, and mosquitto's thread confirms what it took; no packet
has to arrive and no handler has to run, so that exchanges end by their retries
alone. That the client's first writes do not fail for ever is not assumed but a
condition of `ConnectEnds` and `HandshakeEnds` (`FirstWritesTaken`), and of
`NoneStarved` (`WF` of `Sends`): a refused one is not counted as an attempt
(`clientmqtt.cpp:848`), and with a driver that waits for acknowledgements (the
repository's README, line 54) and no gateway it is refused for ever. TLC finds
all three violated without the condition. The gateway's first writes are assumed
to be taken in the end. `KeepAlive`: time passes, loops turn, handlers run.
`GatewayTable`: the loop of `autoclient` runs, and an advertisement lasts longer
than a turn of it (strong fairness of `Attempt`: the attempt is enabled again
and again while a gateway is heard and contact is lost); attempts are given up,
contact with a stopped gateway is lost and its entry runs out; a gateway that
runs advertises; and of the attempts to reach one that runs, some get through,
without which no client connects. The loops are those of `mqttserverapp.cpp:182`
and `autoclient.cpp:301`, which never end.

## What is proved

A theorem is about every value of the constants its module's assumptions allow,
under the hypothesis in the last column if there is one.

| Module | Theorem | Property | Hypothesis |
| --- | --- | --- | --- |
| `PacketQueueProof` | `TypeCorrect` | `[]TypeOK` | |
| | `Exclusive` | `[]MutualExclusion` | |
| | `Conserved` | `[]Conservation` | |
| | `DispatchedAtMostOnce` | `AtMostOnce` | |
| | `WholeBuildIsSound` | `[]OnlyReceivedWhole` | |
| | `Implements` | `StoreSpec`: `PacketQueue` implements `PacketStore` | |
| | `PassesInOrder` | `[]PassOrder` | |
| | `OldestLost` | `OverwritesOldest` | |
| `InflightProof` | `TypeCorrect` | `[]TypeOK` | |
| | `StopAndWait` | `[]OneInFlight` | |
| | `FirstInFirstOut` | `[]OldestFirst` | a place stays free, ids are no fewer than messages and burned ids |
| | `NoSharedIds` | `[]UniqueIds` | the same |
| `GatewayTableProof` | `Typed` | `[]TypeOK` | |
| | `NeverKeptTwice` | `[]HeardOnce` | |
| | `NeverUnknown` | `[]ConnectedKnown` | |
| | `NeverForgotten` | `PermanentKept` | |
| `GatewayLockProof` | `HeldWhereProtected` | `[](TypeOK /\ Held)` | |
| | `ProtectedExclude` | two threads are never in protected sections together | |
| | `WalkNeedsProtection` | a walk that registered no name is complete | handlers move the iterator in protected sections only (`IteratesProtected`) |
| `KeepAliveProof` | `Typed` | `[]TypeOK` | |
| | `GivenUpAfterFour` | `FourPings`: exactly four | a keepalive of at least four seconds |
| | `OnlyTheSilent` | `LostIsIdle` | |
| | `HeldForEver` | `[]Held` | advertisements further apart than pings |
| | `PingedInTimeAlways` | `[]PingedInTime` | the same |
| `SessionProof` | `SuccessIsConfirmed` | `[]NoFalseSuccess` | one life of the client's program |
| | `CallbackComes` | `[]AwaitsCallback` | the same, and no will |
| | `WillAsked` | `[]WillRequested` | new message ids are free (`FreeIds`) |
| | `ConnectDriven` | `[]ConnectPendingUnsearched` | the same |
| `SessionTopicsProof` | `SessionTyped` | `[]TypeOK` | |
| | `SessionDelivers` | `DeliverySpec`: `Session` implements `Delivery` | the gateway's next ids are out of use (`FreeNumbers`) |
| | `SessionDeliversAtFirst` | `DeliverySpec` | the gateway does not restart and its ids do not wrap (`NumbersLeft`) |
| | `ConfirmedIsGiven` | `[]NoFalseDelivery` | the same as `SessionDelivers` |
| | `SessionNamesGranted` | `[]NamesGranted` | one life of the client's program, its ids do not wrap (`OwnNumbersLeft`) |
| | `SessionResumes` | `ResumeComplete` | no REGISTER or REGACK on its way has one of the gateway's next ids (`FreeAcks`) |
| | `SessionResumesAtFirst` | `ResumeComplete` | the gateway does not restart and its ids do not wrap (`NumbersLeft`) |

**PacketQueue.** Assumptions: `QSize` is a natural above 1 and `MaxPackets` a
positive one. The inductive invariant is `Inv == Base /\ Conservation`, with
`Base` the conjunction of `TypeOK`, `LockHeld` (the lock is held exactly by the
thread that is inside its section), `HeadInRing` (the head is behind the array
only between the increment and the wrap) and `Room`. `MutualExclusion` is not
inductive: that one thread waits for the other is in the lock, so `LockHeld` is
needed. `Conservation` is preserved because the slot written and the slot
cleared are the only ones that change (`PendingAfterStore`,
`PendingAfterClear`), which needs that no packet lies in two slots, its last
conjunct. A whole build needs one part more, `WholeHead`: head and `queue_ptr`
are always slots. The refinement follows from `Inv`: a store maps to `Keep` or
`Replace`, a turn on a set slot to `Dispatch`, everything else to a stutter, the
turn behind the array included.

`PassOrder` and `OverwritesOldest`, both about whole builds, say nothing of where
packets lie, and are not inductive. `OrderInv` adds where: a packet's number and
its slot's distance behind the one stored last make up the number of arrivals
(`Placed`). So the slot that the next store overwrites holds the oldest packet of
all, if it holds any (`OldestNext`). A pass goes against that distance: what it
has dispatched from its second packet on is older than anything in the slot it is
at (`Passing`). Its first packet may be younger, since the pass begins at a head
that it read before it had the lock; that is why `PassOrder` starts at the
second.

**Inflight.** Assumptions: the size of the ring, the largest id and the attempts
are positive, and `MaxInflight` lies in the ring. The invariant is
`TypeOK /\ SentAtHead /\ AttemptsLeft`. `OneInFlight` is not inductive: a second
message could be sent while one is on its way. `SentAtHead` says why it is not: a
message that was sent is the one at the head, and the scan of
`get_active_message` stops there as long as it is active (`FirstFromSelf`).
`AttemptsLeft` keeps the count of attempts in its range. That a scan finds the
first place it looks for (`FirstFromMember`) rests on the well-founded order of
the naturals; that `add_message` finds a place, on the size of the ring
(`FreePlace`).

`OldestFirst` and `UniqueIds` need the shape of the ring, `FifoInv`: the active
messages lie side by side from the head, which may be done already, to the tail,
which may have been left empty by a register of a known topic (`Contiguous`), in the
order in which they were added (`Ordered`). Their ids count back from
`m_lastmessageid`, over the wrap, by the messages added and the ids burned since
(`Numbered`); an older message has seen more burned (`Aged`). That they are side by
side makes their number the length of that stretch, so that with one place free the
tail never meets the head, and as long as the ids outnumber what was added or burned
while a message waits, no id is given twice. In a ring that fills up a hole is
found behind the head and both properties fail; nothing in the code keeps that place
free, so this is a hypothesis on the application (`MaxInflight < RingSize`, 20 in the
code), and the run has it too.

**GatewayTable.** Assumptions: id 0 is no gateway's, and the table has a place.
The invariant is `TypeOK /\ TableOK /\ HeardOnce /\ ConnectedKnown`. `TableOK`
adds that only gateways that advertise have entries that can run out: without it
`ConnectedKnown` would not survive `Expire`. `HeardOnce` needs no other part: an
entry is added for what was heard only when `EntriesOf` is empty. What
`add_gateway` overwrites is not active, so that it cannot be the one entry by
which the gateway of the connection is known.

**GatewayLock.** The invariant is `TypeOK /\ Held`: a thread holds the mutex
exactly while it is in a protected section, an inner one, or an outermost one whose
first inner one has not been left (`Protected`). So much exclusion there is, and
`ProtectedExclude` says so; the rest of an outermost section has none, which is how
`WalkComplete` is violated. `WalkNeedsProtection` says that nothing else breaks a
walk: one that registered no name, while no handler moves the iterator behind an
inner section, has seen the topics before the iterator (`Walked`).

**KeepAlive.** The invariant is `TypeOK /\ ClientInv /\ GatewayInv`. `ClientInv`
relates the age of what the client heard last to the pings it has sent since and
to the age of the last ping (`PingsInTime`, `PingsApart`): a ping leaves
`Duration + 1` seconds after the one before, so four fit into the limit of five
keepalives when `Duration >= 4`, and five never do. `FourPings` therefore states
exactly four, and the comment "Give 5 retries before failing"
(`mqttconnection.cpp:218`) is refuted for every keepalive. `GatewayInv` says
that a client which does not publish has a stamp at least as fresh as the last
packet heard of it (`Stamped`).

`Held` needs to know where the ping is: either it is not due yet, and then the
gateway's stamp is no older than the client's last ping, or it lies in the radio,
or its answer does. An advertisement breaks the first alternative.
`received_advertised` calls `update_activity` (`clientmqtt.cpp:510`), which
resets the age of the last ping too, so a client that hears one more often than
it pings never pings and is dropped by the gateway for its silence, although
every packet arrives. Hence `AdInterval > Duration`. TLC finds `Held` and
`PingedInTime` violated with a keepalive of four seconds and advertisements every
2, 3 or 4, and holding from 5 on. The defaults of the repository are 1500 seconds
(`servermqtt.cpp:38`) and 400 (`mqttserverapp.cpp:173`) between advertisements,
which a keepalive above that exposes; the comment at `mqttconnection.cpp:217`
assumes "all pings will be sent timely". `PingedInTime` says as much without the
gateway's record: no second passes in which the client owed a ping and sent none.

**Session.** Assumption: a budget for each kind of call. The sizes of the rings,
the retries, the capacity of the radio and the ids are any, and so are the
restarts of the gateway: packets may be lost, repeated and overtake each other.
`NoFalseSuccess` relates what the application was told to what mosquitto
confirmed, which are four hops apart. `ConfirmedInv` follows the confirmation
along them: a mid of mosquitto's belongs to one publish (`HandedOver`); a message
of the gateway that waits for that mid carries the publish's id (`WaitsFor`),
so that the callback confirms the publish it answers; whatever the gateway sends
or keeps that means success names a confirmed publish (`Truthful`,
`Answerable`), hence so does a PUBREL of the client (`Sound`), by which it
reports QoS 2. Each operation on a ring has a lemma that it keeps such a
predicate of its messages (`SoundAdd`, `SoundLooked`, ... `AnswerableExternal`),
so that a step of client or gateway is a few lines. A publish is named by its id
and the client's life, as in the run: once ids have wrapped a name stands for all
the publishes that had it. A restart of the client is excluded because its ids
begin at 1 again: `reported` would then take the answer to a publish of the first
life for one of the second (`mqttconnection.cpp:82`).

`AwaitsCallback` says of the head of the gateway's ring that mosquitto will still
call. `CallbackInv` says it of every message of the ring, adds that no two
messages have one mid (`MidsDiffer`), without which one callback could complete
another's message, and has one lemma for the steps which give no message a mid
and let none begin to wait (`TameStep`). It uses `ConfirmedInv`, which has the
range of mids. A will is excluded, as in the run (`NoWills`): the handlers of the
will handshake take whatever message is active for theirs, in every state of the
connection (`servermqtt.cpp:987`), which is a hazard of its own.

`WillRequested` and `ConnectPendingUnsearched` say that a side which is
connecting has a message of the handshake to retry. What could take it away is a
packet of another exchange, or of an earlier connection, with the same id: the
two sides number their messages independently, and the handlers of REGACK,
PUBACK, PUBREC and PUBCOMP look for an id and nothing else. `HandshakeInv` says
that there is none: no packet on its way and no message of a ring, on either side,
will ever lead to such an answer with an id of the handshake in progress
(`Quiet`). While a side is connecting it begins no exchange that could give rise
to one, which is most of the proof: `QuietCalls` to `QuietDelivers`, one lemma
for each group of steps. The rest is that a step leaves the message where it
was: the gateway's request at the head of its ring (`AsksOn`), which is why the
callbacks, that look at the mid, and the publishes, which take other places, do
no harm; a message of the client's handshake active in its ring (`DialsOn`).

Both theorems are about behaviours in which the id that `add_message` gives next
is not that of such a packet or message, nor of the gateway's own request for a will
(`FreeIds`), at any moment. Restarts of
either program and wrapped ids are allowed as long as this holds. The code does
not see to it, and TLC finds both properties violated where it fails. With one
place and three ids a gateway that began to register the topics of a returning
client wraps to the id of a REGISTER still on its way; then the client connects
again, with a will, the WILLTOPICREQ gets that id, and the REGACK completes it.
In the same way a CONNECT is completed by the PUBACK that refuses a publish of the
connection before. Since ids wrap at 65535 and begin at 1 again after a restart
(`mqttconnection.cpp:82`) the hypothesis is one on the radio: a packet is gone when
its id comes round.

`SessionTopicsProof` describes what a step does before it says what that
preserves. `RingStep` is what may become of a message of the gateway's ring and
which messages may be new; `SayStep` which packets the gateway may write;
`TopicStep` how its topics change; `HandingStep` how a callback begins and ends;
`BrokerStep` when it confirms a message. `OwnRingStep`, `TellStep`, `ListStep`
and `HearStep` say the same of the client. A lemma for each group of actions
proves them, and the theorems look at the step predicates alone: each invariant
is preserved by a dozen cases of "what can a message, a packet or a topic be
now", and not by thirty handlers.

*Types.* `TypeOK` is not inductive: it does not say which names, ids and numbers go
with which type of packet, and a packet's fields become those of a message, of a
topic and of the next packet. `TypedInv` says it for each of them (`Meant`, `Told`,
`TypedMessage`), for every capacity of the radio and every size of the rings.

*Deliveries.* `Confirm` has to map to a step of `Delivery`: the receipt that
completes a message of the gateway belongs to a message the application was
given. The gateway recognises a receipt by its id alone, so `CarriedInv` follows
the id: the messages of the broker with one id in the gateway's ring are the
same message (`Carry`); a PUBLISH on its way has the number of that message; a
PUBACK or PUBCOMP on its way, and the record the client keeps of a QoS 2 publish,
say that this number was given to the application. This holds as long as an id that
is about to be given is out of use, in the ring, on the radio and in the records
of the client (`FreeNumbers`): if it were not, an answer to the last message that
had the id would confirm the next. `SessionDelivers` has this as a hypothesis about
every state and allows restarts and wrapped ids, `SessionDeliversAtFirst` derives it
while the gateway's ids have not wrapped, since every id in use is then below the
last (`IssuedInv`). The code does not see to it in general: ids wrap at 65535 and
start again with the gateway. The numbering of the client is not restricted, and
neither are restarts of it. `ConfirmedIsGiven` follows from `SessionDelivers` and is
about client and gateway: whatever is lost, repeated or cleared between the two,
`confirmed` stays within what the application was given.

*Names.* The client finds the topic an answer is about by the message id alone. A
REGACK or SUBACK of another request, or of an earlier connection, may confirm a topic
of another name with its id; `NamesGranted` says that this does not happen.
`granted` has every id the gateway ever gave to a name, so the property relates the
client's list to the gateway's history and not to a list that may be forgotten.
`NamesInv` says of everything between the two that it will not spoil it: a REGISTER
of the gateway, in its ring or on its way, names a topic by an id it was given
(`Announces`); a REGACK or SUBACK, or the gateway's message that will become one,
carries an id given to the name the client asked for with that message id
(`MayConfirm`); a request of the client in a ring or on its way asks for what is in
its list (`AskName`). The weak place is the last two: two requests must not have one
id. `AskedInv` shows that they do not while the client's ids have not wrapped, as
`IssuedInv` does for the gateway. That is `OwnNumbersLeft`, the one hypothesis: the
client's message ids do not wrap and its program does not restart, which begins
them at 1 again (`mqttconnection.cpp:82`). Late and repeated CONNECTs, connects with
either clean flag, restarts of the gateway, topic ids that wrap, packets that
overtake each other and the end of the callback that no lock protects are all
included.

More than that the code does not keep. `NamesAgree` says that the gateway still has
the id and means the same by it, while both take the client for connected, and
`RegistrationLate` violates it in eleven states, without a restart and without an
id that wraps: a CONNECT with the clean flag is repeated, the copy arrives after the
client was told that it is connected and registered a name, and `received_connect`
forgets the name (`servermqtt.cpp:872`). The client keeps the id and publishes under
it; the gateway may give it to another name next.

*Resumptions.* `ResumeComplete` is about the last step of a walk over the topics of
a client that came back. `WalkInv` says of every state before it, until the
broker's first message, that the walk is at a topic which it announced together
with all before it (`Walking`), or that it has not begun (`Unwalked`). Which steps
move the walk is `WalkStep`. Two of its cases are not obvious. `received_regack`
moves the iterator whether or not there is room for the next REGISTER
(`servermqtt.cpp:673`), but there always is, since it has just completed a message
(`WalkAcks`). And it moves it for a REGACK with the id of any message of the
gateway's own in the ring, finished or not: one that arrives before the walk has
begun would move an iterator left over from the connection before. `Unwalked`
therefore says that no REGACK on its way, and no REGISTER that will be answered
by one, has the id of such a message (`Expected`). A repeated CONNECT without the
clean flag clears the ring, so that this holds until a message with the id of
such a packet is added; that none is, is the hypothesis `FreeAcks`, which
`SessionResumesAtFirst` derives while ids have not wrapped (`AcksIn`). It cannot be
left out: with two topics, two ids and two connections, the second of them with a
will, TLC violates `ResumeComplete` in 23 states. The REGACK of the first connection
that comes late has the id of the WILLTOPICREQ of the second.

Only model-checked is liveness, since fairness is out of the prover's reach:
that no packet is stranded in the queue and no message in the ring, the ends of
attempts, handshakes and half open connections, and that `autoclient` reaches a
gateway. Every safety property of a passing run is stated by a theorem, with the
hypotheses of the table. The runs that are violated have no theorem.

## What the code does otherwise

The violated runs show five places where the code and its comments disagree;
`PROJECT.json` quotes them. The search, the publisher and the lock need no
failure at all. Others that the models show, or that were met on reading and no
run is about:

- `get_message` also returns inactive messages, so that after 65535 ids an
  acknowledgement may go to a completed message (`mqttconnection.cpp:137`); a
  restarted client has the same trouble at once, since its ids begin at 1.
- An unasked DISCONNECT of the gateway is taken for the answer to a sleep
  request that was never written (`clientmqtt.cpp:757`).
- A new will topic may be published with the will message before it
  (`servermqtt.cpp:983`); a late WILLTOPIC may turn a waiting publish into
  WILLMSGREQ (`servermqtt.cpp:987`).
- Contact is lost after exactly four unanswered pings, where a comment has five
  (`mqttconnection.cpp:218`): `GivenUpAfterFour`.
- `received_connack` returns with `m_mqttlock` taken (`clientmqtt.cpp:636`), and
  `ServerMqttSn::ping` with `m_mosquittolock` (`servermqtt.cpp:1554`).
- `subscribe` leaves a message without content in the ring when the topic is known
  (`clientmqtt.cpp:1050`): at the head it blocks all others (`NoneStarved` names it).
- A first write the driver refuses is tried for ever and never counted
  (`clientmqtt.cpp:848`): the client goes on connecting.
- The end of the message callback runs without the lock and reads the new topic,
  which a clean CONNECT may have freed (`servermqtt.cpp:1215`).
- A client that came without the clean flag and has no topics is never timed out:
  each idle pass calls `complete_client_connection`, which refreshes its stamp
  (`servermqtt.cpp:1469`); a message of the broker between two REGACKs moves the
  iterator, and topics are passed over (`servermqtt.cpp:673`).
- `manage_gw_connection` uses a gateway it did not find, which happens when the
  advertisement ran out before contact was lost (`clientmqtt.cpp:809`); a gateway
  known from a GWINFO that has stopped is tried by `autoclient` for ever.
- `connect` called again with the other clean flag while the first attempt is
  under way leaves a client with ids the gateway has freed; CONNACK and
  DISCONNECT are taken from any gateway (`clientmqtt.cpp:629`).
- The walk over predefined topics moves the iterator of the connection's topics
  instead (`servermqtt.cpp:1177`); `delete_connection`, which nothing calls,
  drops the list when it removes its head (`servermqtt.cpp:822`);
  `set_retry_attributes` sets the attempts to the seconds between them
  (`mqttsnembed.cpp:68`).

## What is not modelled

- The list of connections: the models have one client. With several clients the
  records share only the lock, `mids` and the list. Several clients at one
  address, which `search_connection_address` cannot tell apart, are left out too.
- Predefined and short topics in subscriptions, QoS -1 publishes, and the filter
  `+`. A publish to a short topic is in `Session`: it needs no registration.
- Will and publish in one instance, and packets that overtake each other where
  topics are registered: too large for TLC.
- Contents: names, payloads, lengths, utf8 conversion; terminal input and output
  of the applications, the command parser and the radio drivers.
- The end of the message callback in the middle of a handler: `MessageTail` comes
  between two steps of the main thread, although neither waits for the other, and
  two `add_message` at once could take the same place. A will on the record before
  this one, or a registration for it, frees the lock in the same way for the rest of
  a pass of `manage_connections` or of the callback.
- Waking up: no code of the gateway manages a sleeping client.

## Plan

Done: the modules above, in the order of the table, and the proofs. What would
come next:

1. An abstract specification of publishes in the other direction (a publish is made,
   confirmed, reported), as `Delivery` is for the broker's messages.
   `NoFalseSuccess` is its safety property, and is proved.
2. A second client at the gateway, which would share `mids` and the lock with
   the first.
