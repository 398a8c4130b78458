---- MODULE PacketQueue ----
(* The receive queue of MqttSnEmbed (mqttsnembed.cpp): a ring of slots that  *)
(* the packet driver's thread fills (queue_received) and the main thread     *)
(* empties (dispatch_queue), both under m_mqttlock, except for one read of   *)
(* m_queue_head that dispatch_queue makes before it takes the lock.          *)
(*                                                                           *)
(* A packet is its arrival number, 1, 2, ...; 0 stands for a slot whose      *)
(* "set" flag is false. The handlers the pass calls are in other modules:    *)
(* here a call is the packet's entry in "log".                               *)
EXTENDS Naturals, Sequences, FiniteSets

CONSTANTS
  QSize,      \* MQTT_MAX_QUEUE
  MaxPackets, \* bound on the packets of a behaviour
  Builds      \* the builds that are looked at, see "build"

ASSUME QSizeAssumption == QSize \in Nat \ {0, 1}
ASSUME MaxPacketsAssumption == MaxPackets \in Nat \ {0}
ASSUME BuildsAssumption == Builds \subseteq {"split", "whole"}

VARIABLES
  build,      \* "split": m_queue_head++ and the wrap to 0 are written to
              \* memory one after the other, as in the Makefile's build (no
              \* optimisation); "whole": the new head is computed in a
              \* register
  head,       \* m_queue_head
  slot,       \* m_queue: the packet of each slot, 0 where set = false
  lock,       \* who holds m_mqttlock
  driver,     \* where the driver's thread is in queue_received
  main,       \* where the main thread is in dispatch_queue
  ptr,        \* queue_ptr, the local of dispatch_queue
  arrived,    \* history: packets accepted by queue_received
  log,        \* history: packets dispatched by the current or last pass
  dispatched, \* history: packets dispatched so far
  lost        \* history: packets overwritten so far

vars == <<build, head, slot, lock, driver, main, ptr, arrived, log, dispatched, lost>>

Slots == 0 .. QSize - 1
Packets == 1 .. MaxPackets
Pending == {slot[i] : i \in Slots} \ {0}

Wrapped(i) == IF i >= QSize THEN 0 ELSE i

Init ==
  /\ build \in Builds
  /\ head = 0
  /\ slot = [i \in Slots |-> 0]
  /\ lock = "free"
  /\ driver = "idle"
  /\ main = "idle"
  /\ ptr = 0
  /\ arrived = 0
  /\ log = <<>>
  /\ dispatched = {}
  /\ lost = {}

(***************************************************************************)
(* queue_received, on the driver's thread. A packet whose length or message *)
(* id is out of range returns before the lock and changes nothing.          *)
(***************************************************************************)
ReceiveLock ==
  /\ driver = "idle"
  /\ lock = "free"
  /\ arrived < MaxPackets
  /\ lock' = "driver"
  /\ driver' = "locked"
  /\ UNCHANGED <<build, head, slot, main, ptr, arrived, log, dispatched, lost>>

(* m_queue_head++: the store that an unlocked reader can see. *)
ReceiveAdvance ==
  /\ driver = "locked"
  /\ head' = IF build = "split" THEN head + 1 ELSE Wrapped(head + 1)
  /\ driver' = "advanced"
  /\ UNCHANGED <<build, slot, lock, main, ptr, arrived, log, dispatched, lost>>

(* Changed: a packet that finds its slot taken is dropped. *)
MutantStoreKeepsOld ==
  /\ driver = "advanced"
  /\ LET h == Wrapped(head) IN
       /\ head' = h
       /\ slot' = IF slot[h] = 0 THEN [slot EXCEPT ![h] = arrived + 1] ELSE slot
  /\ arrived' = arrived + 1
  /\ lock' = "free"
  /\ driver' = "idle"
  /\ UNCHANGED <<build, main, ptr, log, dispatched, lost>>

(* The wrap, the copy into the slot and the unlock. *)
ReceiveStore ==
  /\ driver = "advanced"
  /\ LET h == Wrapped(head) IN
       /\ head' = h
       /\ slot' = [slot EXCEPT ![h] = arrived + 1]
       /\ lost' = lost \cup ({slot[h]} \ {0})
  /\ arrived' = arrived + 1
  /\ lock' = "free"
  /\ driver' = "idle"
  /\ UNCHANGED <<build, main, ptr, log, dispatched>>

(***************************************************************************)
(* dispatch_queue, on the main thread.                                      *)
(***************************************************************************)
(* uint8_t queue_ptr = m_queue_head, before the lock. *)
DispatchRead ==
  /\ main = "idle"
  /\ ptr' = head
  /\ main' = "ready"
  /\ UNCHANGED <<build, head, slot, lock, driver, arrived, log, dispatched, lost>>

(* Changed: the lock is not waited for. *)
MutantLockIgnored ==
  /\ main = "ready"
  /\ lock' = "main"
  /\ main' = "pass"
  /\ log' = <<>>
  /\ UNCHANGED <<build, head, slot, driver, ptr, arrived, dispatched, lost>>

DispatchLock ==
  /\ main = "ready"
  /\ lock = "free"
  /\ lock' = "main"
  /\ main' = "pass"
  /\ log' = <<>>
  /\ UNCHANGED <<build, head, slot, driver, ptr, arrived, dispatched, lost>>

(* Changed: the ring is walked downwards. *)
MutantTurnDown(h) ==
  LET next == IF ptr = 0 THEN QSize - 1 ELSE ptr - 1 IN
    IF next = h
    THEN /\ lock' = "free" /\ main' = "idle" /\ UNCHANGED ptr
    ELSE /\ ptr' = next /\ UNCHANGED <<lock, main>>

(* The end of one turn of the do-while loop, with the head it compares to. *)
Turn(h) ==
  LET next == Wrapped(ptr + 1) IN
    IF next = h
    THEN /\ lock' = "free" /\ main' = "idle" /\ UNCHANGED ptr
    ELSE /\ ptr' = next /\ UNCHANGED <<lock, main>>

(* Changed: "set" is not looked at. *)
MutantSetIgnored ==
  /\ main = "pass"
  /\ ptr \in Slots
  /\ log' = Append(log, slot[ptr])
  /\ dispatched' = dispatched \cup {slot[ptr]}
  /\ slot' = [slot EXCEPT ![ptr] = 0]
  /\ Turn(head)
  /\ UNCHANGED <<build, head, driver, arrived, lost>>

(* Changed: set = false is missing. *)
MutantSlotNotCleared ==
  /\ main = "pass"
  /\ ptr \in Slots
  /\ IF slot[ptr] # 0
     THEN /\ log' = Append(log, slot[ptr])
          /\ dispatched' = dispatched \cup {slot[ptr]}
     ELSE UNCHANGED <<log, dispatched>>
  /\ Turn(head)
  /\ UNCHANGED <<build, head, slot, driver, arrived, lost>>

(* Changed: the pass ends at the first slot that is not set. *)
MutantStopsAtEmpty ==
  /\ main = "pass"
  /\ ptr \in Slots
  /\ IF slot[ptr] # 0
     THEN /\ log' = Append(log, slot[ptr])
          /\ dispatched' = dispatched \cup {slot[ptr]}
          /\ slot' = [slot EXCEPT ![ptr] = 0]
          /\ Turn(head)
     ELSE /\ lock' = "free"
          /\ main' = "idle"
          /\ UNCHANGED <<log, dispatched, slot, ptr>>
  /\ UNCHANGED <<build, head, driver, arrived, lost>>

(* Changed: each turn puts m_queue_head back to 0. *)
MutantHeadReset ==
  /\ main = "pass"
  /\ ptr \in Slots
  /\ IF slot[ptr] # 0
     THEN /\ log' = Append(log, slot[ptr])
          /\ dispatched' = dispatched \cup {slot[ptr]}
     ELSE UNCHANGED <<log, dispatched>>
  /\ slot' = [slot EXCEPT ![ptr] = 0]
  /\ head' = 0
  /\ Turn(head)
  /\ UNCHANGED <<build, driver, arrived, lost>>

(* One turn on a slot of the ring: the handler if the slot is set, then      *)
(* set = false.                                                              *)
DispatchSlot ==
  /\ main = "pass"
  /\ ptr \in Slots
  /\ IF slot[ptr] # 0
     THEN /\ log' = Append(log, slot[ptr])
          /\ dispatched' = dispatched \cup {slot[ptr]}
     ELSE UNCHANGED <<log, dispatched>>
  /\ slot' = [slot EXCEPT ![ptr] = 0]
  /\ Turn(head)
  /\ UNCHANGED <<build, head, driver, arrived, lost>>

(* One turn on m_queue[MQTT_MAX_QUEUE], when queue_ptr was read between the  *)
(* increment and the wrap. The flag of that slot is the byte behind the      *)
(* array, m_queue_head itself: a head other than 0 reads as a set flag, the  *)
(* handler called sees bytes no packet brought (0 in the log), and           *)
(* set = false puts the head back to 0.                                      *)
DispatchBeyond ==
  /\ main = "pass"
  /\ ptr = QSize
  /\ log' = IF head # 0 THEN Append(log, 0) ELSE log
  /\ head' = 0
  /\ Turn(0)
  /\ UNCHANGED <<build, slot, driver, arrived, dispatched, lost>>

Driver == ReceiveLock \/ ReceiveAdvance \/ ReceiveStore
Main == DispatchRead \/ DispatchLock \/ DispatchSlot \/ DispatchBeyond
Next == Driver \/ Main

Spec == Init /\ [][Next]_vars

(* The main loop of every application calls dispatch_queue again and again   *)
(* and a handler returns; a thread inside queue_received leaves it. Nothing  *)
(* makes a packet arrive.                                                    *)
Fairness ==
  /\ WF_vars(Main)
  /\ WF_vars(ReceiveAdvance \/ ReceiveStore)

FairSpec == Spec /\ Fairness
----------------------------------------------------------------------------
TypeOK ==
  /\ build \in Builds
  /\ head \in 0 .. QSize
  /\ slot \in [Slots -> 0 .. MaxPackets]
  /\ lock \in {"free", "driver", "main"}
  /\ driver \in {"idle", "locked", "advanced"}
  /\ main \in {"idle", "ready", "pass"}
  /\ ptr \in 0 .. QSize
  /\ arrived \in 0 .. MaxPackets
  /\ log \in Seq(0 .. MaxPackets)
  /\ dispatched \subseteq Packets
  /\ lost \subseteq Packets

(* The slots are changed by one thread at a time: while the main thread is   *)
(* inside its pass, a handler running, the driver's thread is not between    *)
(* m_queue_head++ and the copy of the packet (mqttsnembed.cpp:140, 165).     *)
MutualExclusion == ~(main = "pass" /\ driver # "idle")

(* A handler is never called twice for one received packet, whatever slot    *)
(* queue_ptr starts from and however the passes overlap with arrivals, and   *)
(* never for one that was overwritten.                                       *)
AtMostOnce ==
  [][\A p \in Packets :
       log' = Append(log, p) => p \in Pending \ (dispatched \cup lost)]_vars

(* Every packet accepted is waiting in exactly one slot, or was dispatched,  *)
(* or was overwritten: none disappears, none is counted twice.               *)
Conservation ==
  /\ Pending \cup dispatched \cup lost = 1 .. arrived
  /\ Pending \cap dispatched = {}
  /\ Pending \cap lost = {}
  /\ dispatched \cap lost = {}
  /\ \A i, j \in Slots : slot[i] = slot[j] /\ slot[i] # 0 => i = j

(* The packet that is overwritten is the oldest one that waits, also after a *)
(* pass that began at a stale queue_ptr left older packets behind            *)
(* ("Overwrites old queue messages", mqttsnembed.hpp:203). With two stores a *)
(* pass may put the head back, and newer packets are overwritten first.      *)
OverwritesOldest ==
  [][build = "whole" =>
       \A p \in lost' \ lost : \A q \in Pending : p <= q]_vars

(* What dispatch_queue does to the order of arrival: it starts at the head,  *)
(* so the first packet of a pass may be the newest; the others follow in the *)
(* order of their arrival. (Not so after a pass put the head back.)          *)
PassOrder ==
  build = "whole" =>
    \A i, j \in 2 .. Len(log) : i < j => log[i] < log[j]

(* Handlers are called for received packets only: "Queue the data received   *)
(* until dispatch is called" (mqttsnembed.hpp:202).                          *)
OnlyReceived == \A i \in 1 .. Len(log) : log[i] # 0

(* In a build that stores the head once they are: queue_ptr, though it is    *)
(* read without the lock, is never the position behind the array.            *)
OnlyReceivedWhole == build = "whole" => OnlyReceived

(* No packet waits forever: it is dispatched or overwritten. A pass whose    *)
(* queue_ptr was stale skips the head slot; a later one takes it.            *)
NoneStranded == \A p \in Packets : (p \in Pending) ~> (p \notin Pending)

(* The ring, the lock and the threads implement the store of PacketStore.    *)
Store == INSTANCE PacketStore WITH pending <- Pending
StoreSpec == Store!Spec
====
