---- MODULE PacketQueueProof ----
(* What PacketQueue guarantees for every ring size, every number of packets  *)
(* and both ways of compiling the wrap of m_queue_head.                      *)
EXTENDS PacketQueue, TLAPS

(* m_mqttlock is held exactly by the thread that is inside its section.      *)
LockHeld ==
  /\ lock = "main" <=> main = "pass"
  /\ lock = "driver" <=> driver # "idle"

(* Only a thread between m_queue_head++ and the wrap leaves the head at      *)
(* MQTT_MAX_QUEUE.                                                           *)
HeadInRing == driver # "advanced" => head \in Slots

(* The bound on the packets leaves room for the one being stored.            *)
Room == driver # "idle" => arrived < MaxPackets

Base == TypeOK /\ LockHeld /\ HeadInRing /\ Room
Inv == Base /\ Conservation

USE QSizeAssumption, MaxPacketsAssumption

LEMMA WrappedInRing ==
  ASSUME NEW i \in Nat, i <= QSize + 1
  PROVE  Wrapped(i) \in Slots
BY DEF Wrapped, Slots

LEMMA BaseInit == Init => Base
BY DEF Init, Base, TypeOK, LockHeld, HeadInRing, Room, Slots, Packets

LEMMA ConservationInit == Init => Conservation
BY DEF Init, Conservation, Pending, Slots

(* The slot written is the only one that changes. *)
LEMMA PendingAfterStore ==
  ASSUME TypeOK, NEW h \in Slots, NEW p \in Nat \ {0},
         slot' = [slot EXCEPT ![h] = p],
         \A i, j \in Slots : slot[i] = slot[j] /\ slot[i] # 0 => i = j
  PROVE  Pending' = (Pending \ {slot[h]}) \cup {p}
BY DEF Pending, TypeOK, Slots

LEMMA PendingAfterClear ==
  ASSUME TypeOK, NEW h \in Slots,
         slot' = [slot EXCEPT ![h] = 0],
         \A i, j \in Slots : slot[i] = slot[j] /\ slot[i] # 0 => i = j
  PROVE  Pending' = Pending \ {slot[h]}
BY DEF Pending, TypeOK, Slots

LEMMA BaseStep ==
  ASSUME Base, [Next]_vars
  PROVE  Base'
<1> USE DEF Base, TypeOK, LockHeld, HeadInRing, Room
<1>1. CASE ReceiveLock
  BY <1>1 DEF ReceiveLock, Slots
<1>2. CASE ReceiveAdvance
  BY <1>2, WrappedInRing DEF ReceiveAdvance, Slots
<1>3. CASE ReceiveStore
  <2>1. Wrapped(head) \in Slots
    BY WrappedInRing
  <2>2. slot' \in [Slots -> 0 .. MaxPackets]
    BY <1>3, <2>1 DEF ReceiveStore
  <2>3. lost' \subseteq Packets
    <3>1. slot[Wrapped(head)] \in 0 .. MaxPackets
      BY <2>1
    <3>2. {slot[Wrapped(head)]} \ {0} \subseteq Packets
      BY <3>1 DEF Packets
    <3> QED
      BY <1>3, <3>2 DEF ReceiveStore
  <2>4. head' \in 0 .. QSize /\ HeadInRing'
    BY <1>3, <2>1 DEF ReceiveStore, Slots
  <2> QED
    BY <1>3, <2>2, <2>3, <2>4 DEF ReceiveStore, Packets
<1>4. CASE DispatchRead
  BY <1>4 DEF DispatchRead, Slots
<1>5. CASE DispatchLock
  BY <1>5 DEF DispatchLock, Slots
<1>6. CASE DispatchSlot
  <2>1. PICK p \in 0 .. MaxPackets : p = slot[ptr]
    BY <1>6 DEF DispatchSlot
  <2>2. slot' \in [Slots -> 0 .. MaxPackets]
    BY <1>6 DEF DispatchSlot
  <2>3. log' \in Seq(0 .. MaxPackets) /\ dispatched' \subseteq Packets
    <3>1. CASE p = 0
      BY <1>6, <2>1, <3>1 DEF DispatchSlot
    <3>2. CASE p # 0
      <4>1. p \in Packets
        BY <3>2 DEF Packets
      <4>2. log' = Append(log, p) /\ dispatched' = dispatched \cup {p}
        BY <1>6, <2>1, <3>2 DEF DispatchSlot
      <4> QED
        BY <4>1, <4>2
    <3> QED
      BY <3>1, <3>2
  <2>4. /\ lock' \in {"free", "main"} /\ main' \in {"idle", "pass"}
        /\ lock' = "main" <=> main' = "pass"
        /\ ptr' \in 0 .. QSize
        /\ driver = "idle"
    <3>1. Wrapped(ptr + 1) \in Slots
      BY WrappedInRing
    <3> QED
      BY <1>6, <3>1 DEF DispatchSlot, Turn, Slots
  <2> QED
    BY <1>6, <2>2, <2>3, <2>4 DEF DispatchSlot
<1>7. CASE DispatchBeyond
  <2>1. log' \in Seq(0 .. MaxPackets)
    <3>1. log' = Append(log, 0) \/ log' = log
      BY <1>7 DEF DispatchBeyond
    <3>2. 0 \in 0 .. MaxPackets
      OBVIOUS
    <3>3. Append(log, 0) \in Seq(0 .. MaxPackets)
      BY <3>2
    <3> QED
      BY <3>1, <3>3
  <2>2. /\ lock' \in {"free", "main"} /\ main' \in {"idle", "pass"}
        /\ lock' = "main" <=> main' = "pass"
        /\ ptr' \in 0 .. QSize
        /\ driver = "idle"
    <3>1. Wrapped(ptr + 1) \in Slots
      BY WrappedInRing
    <3> QED
      BY <1>7, <3>1 DEF DispatchBeyond, Turn, Slots
  <2> QED
    BY <1>7, <2>1, <2>2 DEF DispatchBeyond, Slots
<1>8. CASE UNCHANGED vars
  BY <1>8 DEF vars, Slots
<1> QED
  BY <1>1, <1>2, <1>3, <1>4, <1>5, <1>6, <1>7, <1>8 DEF Next, Driver, Main

(* The values every variable may take, m_queue_head and queue_ptr included:  *)
(* the head passes MQTT_MAX_QUEUE - 1 only on its way to 0.                  *)
THEOREM TypeCorrect == Spec => []TypeOK
<1>1. Init => Base
  BY BaseInit
<1>2. Base /\ [Next]_vars => Base'
  BY BaseStep
<1>3. Base => TypeOK
  BY DEF Base
<1> QED
  BY <1>1, <1>2, <1>3, PTL DEF Spec

(* queue_received and the pass of dispatch_queue never change the slots at   *)
(* the same time (m_mqttlock, mqttsnembed.cpp:140 and 165).                  *)
THEOREM Exclusive == Spec => []MutualExclusion
<1>1. Init => Base
  BY BaseInit
<1>2. Base /\ [Next]_vars => Base'
  BY BaseStep
<1>3. Base => MutualExclusion
  BY DEF Base, LockHeld, MutualExclusion
<1> QED
  BY <1>1, <1>2, <1>3, PTL DEF Spec

(* The steps that leave the slots and the histories alone.                   *)
LEMMA QuietSteps ==
  ASSUME Base,
         ReceiveLock \/ ReceiveAdvance \/ DispatchRead \/ DispatchLock
           \/ DispatchBeyond \/ UNCHANGED vars
  PROVE  UNCHANGED <<slot, arrived, dispatched, lost>>
BY DEF ReceiveLock, ReceiveAdvance, DispatchRead, DispatchLock, DispatchBeyond, vars

LEMMA ConservationStep ==
  ASSUME Inv, [Next]_vars
  PROVE  Conservation'
<1> USE DEF Inv
<1>0. TypeOK /\ Base /\ Conservation
  BY DEF Base
<1>1. CASE ReceiveStore
  <2> DEFINE h == Wrapped(head)
             p == slot[h]
  <2>1. h \in Slots
    BY <1>0, WrappedInRing DEF TypeOK
  <2>2. p \in 0 .. MaxPackets
    BY <1>0, <2>1 DEF TypeOK
  <2>3. arrived \in Nat /\ arrived' = arrived + 1
    BY <1>0, <1>1 DEF TypeOK, ReceiveStore
  <2>4. slot' = [slot EXCEPT ![h] = arrived + 1]
    BY <1>1 DEF ReceiveStore
  <2>5. lost' = lost \cup ({p} \ {0}) /\ dispatched' = dispatched
    BY <1>1 DEF ReceiveStore
  <2>6. Pending' = (Pending \ {p}) \cup {arrived + 1}
    <3>1. \A i, j \in Slots : slot[i] = slot[j] /\ slot[i] # 0 => i = j
      BY <1>0 DEF Conservation
    <3>2. arrived + 1 \in Nat \ {0}
      BY <2>3
    <3> HIDE DEF h
    <3> QED
      BY <1>0, <2>1, <2>4, <3>1, <3>2, PendingAfterStore
  <2>7. p # 0 => p \in Pending
    BY <2>1 DEF Pending
  <2>8. 0 \notin Pending
    BY DEF Pending
  <2>9. 1 .. (arrived + 1) = (1 .. arrived) \cup {arrived + 1} /\ arrived + 1 \notin 1 .. arrived
    BY <2>3
  <2> HIDE DEF p, h
  <2>10. /\ Pending' \cup dispatched' \cup lost' = 1 .. arrived'
         /\ Pending' \cap dispatched' = {}
         /\ Pending' \cap lost' = {}
         /\ dispatched' \cap lost' = {}
    BY <1>0, <2>3, <2>5, <2>6, <2>7, <2>8, <2>9 DEF Conservation
  <2>11. \A i \in Slots : slot[i] # arrived + 1
    <3>1. \A i \in Slots : slot[i] # 0 => slot[i] \in 1 .. arrived
      BY <1>0 DEF Conservation, Pending
    <3> QED
      BY <2>3, <3>1
  <2>12. \A i, j \in Slots : slot'[i] = slot'[j] /\ slot'[i] # 0 => i = j
    BY <1>0, <2>1, <2>4, <2>11 DEF Conservation, TypeOK
  <2> QED
    BY <2>10, <2>12 DEF Conservation
<1>2. CASE DispatchSlot
  <2> DEFINE p == slot[ptr]
  <2>1. ptr \in Slots /\ slot' = [slot EXCEPT ![ptr] = 0]
    BY <1>2 DEF DispatchSlot
  <2>2. Pending' = Pending \ {p}
    BY <1>0, <2>1, PendingAfterClear DEF Conservation
  <2>3. p # 0 => p \in Pending
    BY <2>1 DEF Pending
  <2>4. dispatched' = dispatched \cup ({p} \ {0}) /\ lost' = lost /\ arrived' = arrived
    BY <1>2 DEF DispatchSlot
  <2>5. 0 \notin Pending
    BY DEF Pending
  <2> HIDE DEF p
  <2>6. /\ Pending' \cup dispatched' \cup lost' = 1 .. arrived'
        /\ Pending' \cap dispatched' = {}
        /\ Pending' \cap lost' = {}
        /\ dispatched' \cap lost' = {}
    BY <1>0, <2>2, <2>3, <2>4, <2>5 DEF Conservation
  <2>7. \A i, j \in Slots : slot'[i] = slot'[j] /\ slot'[i] # 0 => i = j
    BY <1>0, <2>1 DEF Conservation, TypeOK
  <2> QED
    BY <2>6, <2>7 DEF Conservation
<1>3. CASE ReceiveLock \/ ReceiveAdvance \/ DispatchRead \/ DispatchLock
             \/ DispatchBeyond \/ UNCHANGED vars
  BY <1>0, <1>3, QuietSteps DEF Conservation, Pending
<1> QED
  BY <1>1, <1>2, <1>3 DEF Next, Driver, Main

LEMMA Invariance == Spec => []Inv
<1>1. Init => Inv
  BY BaseInit, ConservationInit DEF Inv
<1>2. Inv /\ [Next]_vars => Inv'
  BY BaseStep, ConservationStep DEF Inv
<1> QED
  BY <1>1, <1>2, PTL DEF Spec

(* No accepted packet disappears and none is kept in two slots.              *)
THEOREM Conserved == Spec => []Conservation
BY Invariance, PTL DEF Inv

(* A step that appends a received packet to the log takes it from a slot.    *)
LEMMA DispatchTakesPending ==
  ASSUME Inv, [Next]_vars, NEW p \in Packets, log' = Append(log, p)
  PROVE  p \in Pending \ (dispatched \cup lost)
<1>1. log \in Seq(0 .. MaxPackets) /\ p \in 0 .. MaxPackets /\ p # 0
  BY DEF Inv, Base, TypeOK, Packets
<1>2. log' # log /\ log' # <<>> /\ Len(log') = Len(log) + 1 /\ log'[Len(log) + 1] = p
  BY <1>1
<1>3. DispatchSlot \/ DispatchBeyond
  BY <1>2 DEF Next, Driver, Main, ReceiveLock, ReceiveAdvance, ReceiveStore,
              DispatchRead, DispatchLock, vars
<1>4. ~DispatchBeyond
  <2> SUFFICES ASSUME DispatchBeyond PROVE FALSE
    OBVIOUS
  <2>1. log' = Append(log, 0)
    BY <1>2 DEF DispatchBeyond
  <2>2. log'[Len(log) + 1] = 0
    BY <1>1, <2>1
  <2> QED
    BY <1>1, <1>2, <2>2
<1>5. DispatchSlot /\ ptr \in Slots /\ slot[ptr] # 0 /\ log' = Append(log, slot[ptr])
  BY <1>2, <1>3, <1>4 DEF DispatchSlot
<1>6. slot[ptr] \in 0 .. MaxPackets
  BY <1>5 DEF Inv, Base, TypeOK
<1>7. log'[Len(log) + 1] = slot[ptr]
  BY <1>1, <1>5, <1>6
<1>8. slot[ptr] \in Pending
  BY <1>5 DEF Pending
<1>9. slot[ptr] \notin dispatched \cup lost
  BY <1>8 DEF Inv, Conservation
<1> QED
  BY <1>2, <1>7, <1>8, <1>9

(* A received packet reaches its handler at most once, however passes of     *)
(* dispatch_queue overlap with arrivals.                                     *)
THEOREM DispatchedAtMostOnce == Spec => AtMostOnce
<1>1. Inv /\ [Next]_vars =>
        [\A p \in Packets :
           log' = Append(log, p) => p \in Pending \ (dispatched \cup lost)]_vars
  BY DispatchTakesPending
<1> QED
  BY <1>1, Invariance, PTL DEF Spec, AtMostOnce

(* A head that is stored once is a slot of the ring whenever it can be read. *)
WholeHead ==
  build = "whole" => head \in Slots /\ ptr \in Slots /\ OnlyReceived

LEMMA WholeHeadStep == Base /\ WholeHead /\ [Next]_vars => WholeHead'
<1> SUFFICES ASSUME Base, WholeHead, [Next]_vars, build' = "whole"
             PROVE  (head \in Slots /\ ptr \in Slots /\ OnlyReceived)'
  BY DEF WholeHead
<1>0. build = "whole" /\ head \in Slots /\ ptr \in Slots /\ OnlyReceived
  BY DEF WholeHead, Next, Driver, Main, ReceiveLock, ReceiveAdvance, ReceiveStore,
         DispatchRead, DispatchLock, DispatchSlot, DispatchBeyond, vars
<1>1. CASE ReceiveAdvance
  BY <1>0, <1>1, WrappedInRing DEF ReceiveAdvance, OnlyReceived, Slots
<1>2. CASE ReceiveStore
  BY <1>0, <1>2, WrappedInRing DEF ReceiveStore, OnlyReceived, Slots
<1>3. CASE DispatchLock
  BY <1>0, <1>3 DEF DispatchLock, OnlyReceived
<1>4. CASE DispatchSlot
  <2>1. head' \in Slots /\ ptr' \in Slots
    <3>1. head' = head /\ ptr' \in {ptr, Wrapped(ptr + 1)}
      BY <1>4 DEF DispatchSlot, Turn
    <3>2. Wrapped(ptr + 1) \in Slots
      BY <1>0, WrappedInRing DEF Slots
    <3> QED
      BY <1>0, <3>1, <3>2
  <2>2. OnlyReceived'
    <3>1. CASE slot[ptr] = 0
      BY <1>0, <1>4, <3>1 DEF DispatchSlot, OnlyReceived
    <3>2. CASE slot[ptr] # 0
      <4>1. log' = Append(log, slot[ptr])
        BY <1>4, <3>2 DEF DispatchSlot
      <4>2. log \in Seq(0 .. MaxPackets) /\ slot[ptr] \in 0 .. MaxPackets
        BY <1>0 DEF Base, TypeOK
      <4>3. ASSUME NEW i \in 1 .. Len(log')
            PROVE  log'[i] # 0
        BY <1>0, <3>2, <4>1, <4>2 DEF OnlyReceived
      <4> QED
        BY <4>3 DEF OnlyReceived
    <3> QED
      BY <3>1, <3>2
  <2> QED
    BY <2>1, <2>2
<1>5. CASE DispatchBeyond
  BY <1>0, <1>5 DEF DispatchBeyond, Slots
<1>6. CASE ReceiveLock \/ DispatchRead \/ UNCHANGED vars
  BY <1>0, <1>6 DEF ReceiveLock, DispatchRead, OnlyReceived, vars
<1> QED
  BY <1>1, <1>2, <1>3, <1>4, <1>5, <1>6 DEF Next, Driver, Main

(* A build that stores the head once dispatches received packets only, from  *)
(* whatever slot the unlocked read makes a pass begin.                       *)
THEOREM WholeBuildIsSound == Spec => []OnlyReceivedWhole
<1>1. Init => WholeHead
  BY DEF Init, WholeHead, OnlyReceived, Slots
<1>2. Base /\ WholeHead /\ [Next]_vars => WholeHead'
  BY WholeHeadStep
<1>3. Base /\ WholeHead => OnlyReceivedWhole
  BY DEF WholeHead, OnlyReceivedWhole
<1> QED
  BY <1>1, <1>2, <1>3, BaseInit, BaseStep, PTL DEF Spec

(* The ring under its two threads implements the store of PacketStore.       *)
THEOREM Implements == Spec => StoreSpec
<1>1. Init => Store!Init
  BY DEF Init, Store!Init, Pending, Slots
<1>2. Inv /\ [Next]_vars => [Store!Next]_(Store!storeVars)
  <2> SUFFICES ASSUME Inv, [Next]_vars
               PROVE  [Store!Next]_(Store!storeVars)
    OBVIOUS
  <2>0. TypeOK /\ Base /\ Conservation
    BY DEF Inv, Base
  <2>1. CASE ReceiveStore
    <3> DEFINE h == Wrapped(head)
    <3>1. h \in Slots
      BY <2>0, WrappedInRing DEF TypeOK
    <3>2. arrived \in Nat /\ arrived < MaxPackets /\ arrived' = arrived + 1
      BY <2>0, <2>1 DEF TypeOK, Base, Room, ReceiveStore
    <3>3. lost' = lost \cup ({slot[h]} \ {0}) /\ dispatched' = dispatched
      BY <2>1 DEF ReceiveStore
    <3>4. Pending' = (Pending \ {slot[h]}) \cup {arrived + 1}
      <4>1. \A i, j \in Slots : slot[i] = slot[j] /\ slot[i] # 0 => i = j
        BY <2>0 DEF Conservation
      <4>2. slot' = [slot EXCEPT ![h] = arrived + 1]
        BY <2>1 DEF ReceiveStore
      <4>3. arrived + 1 \in Nat \ {0}
        BY <3>2
      <4> HIDE DEF h
      <4> QED
        BY <2>0, <3>1, <4>1, <4>2, <4>3, PendingAfterStore
    <3>5. CASE slot[h] = 0
      <4>1. 0 \notin Pending
        BY DEF Pending
      <4> HIDE DEF h
      <4>2. Store!Keep
        BY <3>2, <3>3, <3>4, <3>5, <4>1 DEF Store!Keep
      <4> QED
        BY <4>2 DEF Store!Next
    <3>6. CASE slot[h] # 0
      <4>1. slot[h] \in Pending
        BY <3>1, <3>6 DEF Pending
      <4> HIDE DEF h
      <4>2. Store!Replace
        BY <3>2, <3>3, <3>4, <3>6, <4>1 DEF Store!Replace
      <4> QED
        BY <4>2 DEF Store!Next
    <3> QED
      BY <3>5, <3>6
  <2>2. CASE DispatchSlot
    <3>1. ptr \in Slots /\ slot' = [slot EXCEPT ![ptr] = 0]
      BY <2>2 DEF DispatchSlot
    <3>2. Pending' = Pending \ {slot[ptr]}
      <4>1. \A i, j \in Slots : slot[i] = slot[j] /\ slot[i] # 0 => i = j
        BY <2>0 DEF Conservation
      <4> QED
        BY <2>0, <3>1, <4>1, PendingAfterClear
    <3>3. CASE slot[ptr] = 0
      <4>1. 0 \notin Pending
        BY DEF Pending
      <4> QED
        BY <2>2, <3>2, <3>3, <4>1 DEF DispatchSlot, Store!storeVars
    <3>4. CASE slot[ptr] # 0
      <4>1. slot[ptr] \in Pending
        BY <3>1, <3>4 DEF Pending
      <4>2. Store!Dispatch
        BY <2>2, <3>2, <3>4, <4>1 DEF DispatchSlot, Store!Dispatch
      <4> QED
        BY <4>2 DEF Store!Next
    <3> QED
      BY <3>3, <3>4
  <2>3. CASE ReceiveLock \/ ReceiveAdvance \/ DispatchRead \/ DispatchLock
               \/ DispatchBeyond \/ UNCHANGED vars
    <3>1. UNCHANGED <<slot, arrived, dispatched, lost>>
      BY <2>0, <2>3, QuietSteps
    <3> QED
      BY <3>1 DEF Pending, Store!storeVars
  <2> QED
    BY <2>1, <2>2, <2>3 DEF Next, Driver, Main
<1> QED
  BY <1>1, <1>2, Invariance, PTL DEF Spec, StoreSpec, Store!Spec
----------------------------------------------------------------------------
(* Order. With a head that is stored once each packet has its place: the     *)
(* newest is in the slot that was the head's when it was stored, the one     *)
(* that arrived n packets earlier n slots before it, if it still waits.      *)
LastStored ==
  IF driver = "advanced" THEN IF head = 0 THEN QSize - 1 ELSE head - 1 ELSE head

Behind(i) == IF i <= LastStored THEN LastStored - i ELSE LastStored + QSize - i

Placed == \A i \in Slots : slot[i] # 0 => slot[i] + Behind(i) = arrived

(* A pass is at the head only before its first turn. From its second packet  *)
(* on it has dispatched only packets older than that of the slot it is at.   *)
Passing ==
  main = "pass" =>
    /\ ptr = head => log = <<>>
    /\ \A k \in 2 .. Len(log) : log[k] + Behind(ptr) < arrived

WholeOrder == build = "whole" => Placed /\ Passing /\ PassOrder

OrderInv == Base /\ WholeHead /\ WholeOrder

LEMMA BehindType ==
  ASSUME LastStored \in Slots, NEW i \in Slots
  PROVE  /\ Behind(i) \in Slots
         /\ Behind(i) = 0 <=> i = LastStored
BY DEF Behind, Slots

(* The slot behind the newest packet's is that of the oldest.                *)
LEMMA OldestNext ==
  ASSUME LastStored \in Slots
  PROVE  /\ Behind(Wrapped(LastStored + 1)) = QSize - 1
         /\ \A i \in Slots : i # LastStored =>
              Behind(Wrapped(i + 1)) = Behind(i) - 1
BY DEF Behind, Wrapped, Slots

LEMMA LastStoredSlot == Base /\ WholeHead /\ build = "whole" => LastStored \in Slots
BY DEF WholeHead, LastStored, Slots

(* queue_received overwrites the slot behind the newest packet's.            *)
LEMMA StoreMoves ==
  ASSUME OrderInv, build = "whole", ReceiveStore
  PROVE  /\ head \in Slots /\ Wrapped(head) = head /\ Behind(head) = QSize - 1
         /\ LastStored' = head /\ \A i \in Slots : i = head => Behind(i)' = 0
         /\ \A i \in Slots \ {head} : Behind(i)' = Behind(i) + 1
<1>1. head \in Slots /\ head' = Wrapped(head) /\ driver = "advanced" /\ driver' = "idle"
  BY DEF OrderInv, WholeHead, ReceiveStore
<1>2. Wrapped(head) = head /\ head' = head
  BY <1>1 DEF Wrapped, Slots
<1>3. LastStored = (IF head = 0 THEN QSize - 1 ELSE head - 1) /\ LastStored' = head
  BY <1>1, <1>2 DEF LastStored
<1>4. Behind(head) = QSize - 1
  BY <1>1, <1>3 DEF Behind, Slots
<1>5. \A i : Behind(i)' = IF i <= LastStored' THEN LastStored' - i ELSE LastStored' + QSize - i
  BY DEF Behind
<1>6. \A i \in Slots : i = head => Behind(i)' = 0
  BY <1>1, <1>3, <1>5 DEF Slots
<1>7. \A i \in Slots \ {head} : Behind(i)' = Behind(i) + 1
  BY <1>1, <1>3, <1>5 DEF Behind, Slots
<1> QED
  BY <1>1, <1>2, <1>3, <1>4, <1>6, <1>7

(* The slots, the newest packet and the log stay: the order stays.           *)
LEMMA OrderKept ==
  ASSUME OrderInv, build = "whole",
         UNCHANGED <<slot, arrived>>, LastStored' = LastStored,
         \/ main' = main /\ UNCHANGED <<log, ptr, head>>
         \/ main' # "pass" /\ log' = log
         \/ log' = <<>>
  PROVE  (Placed /\ Passing /\ PassOrder)'
<1>1. Placed /\ Passing /\ PassOrder
  BY DEF OrderInv, WholeOrder
<1>2. \A i : Behind(i)' = Behind(i)
  BY DEF Behind
<1>3. Placed'
  BY <1>1, <1>2 DEF Placed
<1>4. CASE log' = <<>>
  <2>1. Len(log') = 0 /\ 2 .. 0 = {}
    BY <1>4
  <2>2. Passing'
    BY <1>4, <2>1 DEF Passing
  <2>3. PassOrder'
    BY <2>1 DEF PassOrder
  <2> QED
    BY <1>3, <2>2, <2>3
<1>5. CASE main' # "pass" /\ log' = log
  BY <1>1, <1>3, <1>5 DEF Passing, PassOrder, OrderInv
<1>6. CASE main' = main /\ UNCHANGED <<log, ptr, head>>
  <2>1. Behind(ptr)' = Behind(ptr)
    BY <1>6 DEF Behind
  <2>2. Passing'
    BY <1>1, <1>6, <2>1 DEF Passing
  <2> QED
    BY <1>1, <1>3, <1>6, <2>2 DEF PassOrder, OrderInv
<1> QED
  BY <1>4, <1>5, <1>6

LEMMA OrderStore ==
  ASSUME OrderInv, build = "whole", ReceiveStore
  PROVE  (Placed /\ Passing /\ PassOrder)'
<1>1. Placed /\ PassOrder /\ arrived \in Nat /\ slot \in [Slots -> 0 .. MaxPackets]
  BY DEF OrderInv, WholeOrder, Base, TypeOK
<1>2. /\ head \in Slots /\ \A i \in Slots : i = head => Behind(i)' = 0
      /\ \A i \in Slots \ {head} : Behind(i)' = Behind(i) + 1
  BY StoreMoves
<1>3. slot' = [slot EXCEPT ![head] = arrived + 1] /\ arrived' = arrived + 1
  BY StoreMoves DEF ReceiveStore
<1>4. \A i \in Slots : Behind(i) \in Slots
  BY LastStoredSlot, BehindType DEF OrderInv
<1>5. Placed'
  <2> SUFFICES ASSUME NEW i \in Slots, slot'[i] # 0
               PROVE  slot'[i] + Behind(i)' = arrived'
    BY DEF Placed
  <2>1. CASE i = head
    BY <1>1, <1>2, <1>3, <2>1
  <2>2. CASE i # head
    <3>1. slot'[i] = slot[i] /\ slot[i] \in Nat /\ Behind(i) \in Nat
      BY <1>1, <1>3, <1>4, <2>2 DEF Slots
    <3>2. slot[i] + Behind(i) = arrived
      BY <1>1, <3>1 DEF Placed
    <3> QED
      BY <1>1, <1>2, <1>3, <2>2, <3>1, <3>2
  <2> QED
    BY <2>1, <2>2
<1>6. main' # "pass" /\ log' = log /\ build' = build
  BY DEF ReceiveStore, OrderInv, Base, LockHeld
<1> QED
  BY <1>1, <1>5, <1>6 DEF Passing, PassOrder

LEMMA Appended ==
  ASSUME NEW S, NEW s \in Seq(S), NEW e \in S
  PROVE  /\ Append(s, e) \in Seq(S) /\ Len(s) \in Nat /\ Len(Append(s, e)) = Len(s) + 1
         /\ \A k \in 1 .. Len(s) : Append(s, e)[k] = s[k]
         /\ Append(s, e)[Len(s) + 1] = e
OBVIOUS

LEMMA OrderSlot ==
  ASSUME OrderInv, build = "whole", DispatchSlot
  PROVE  (Placed /\ Passing /\ PassOrder)'
<1> DEFINE p == slot[ptr]
           next == Wrapped(ptr + 1)
<1>1. /\ Placed /\ PassOrder /\ arrived \in Nat /\ slot \in [Slots -> 0 .. MaxPackets]
      /\ log \in Seq(0 .. MaxPackets) /\ head \in Slots /\ ptr \in Slots
  BY DEF OrderInv, WholeOrder, WholeHead, Base, TypeOK
<1>2. /\ driver = "idle" /\ LastStored = head /\ LastStored' = LastStored
      /\ UNCHANGED <<head, arrived, build>>
  BY DEF OrderInv, Base, LockHeld, DispatchSlot, LastStored
<1>3. /\ ptr = head => log = <<>>
      /\ \A k \in 2 .. Len(log) : log[k] + Behind(ptr) < arrived
  BY DEF OrderInv, WholeOrder, Passing, DispatchSlot
<1>4. \A i : Behind(i)' = Behind(i)
  BY <1>2 DEF Behind
<1>5. Placed'
  BY <1>1, <1>2, <1>4 DEF Placed, DispatchSlot
<1>6. p \in 0 .. MaxPackets /\ (p # 0 => p + Behind(ptr) = arrived)
  BY <1>1 DEF Placed
<1>7. Behind(ptr) \in Nat
  BY <1>1, <1>2, BehindType DEF Slots
<1>8. IF p # 0 THEN log' = Append(log, p) ELSE log' = log
  BY DEF DispatchSlot
<1> HIDE DEF p
<1>9. /\ log' \in Seq(0 .. MaxPackets) /\ Len(log) \in Nat
      /\ Len(log') = IF p # 0 THEN Len(log) + 1 ELSE Len(log)
      /\ \A k \in 1 .. Len(log) : log'[k] = log[k] /\ log[k] \in Nat
      /\ p # 0 => log'[Len(log) + 1] = p
  <2>1. \A k \in 1 .. Len(log) : log[k] \in Nat
    BY <1>1
  <2>2. CASE p = 0
    BY <1>1, <1>8, <2>1, <2>2
  <2>3. CASE p # 0
    <3> DEFINE S == 0 .. MaxPackets
    <3>1. log \in Seq(S) /\ p \in S
      BY <1>1, <1>6
    <3> HIDE DEF S
    <3>2. /\ Append(log, p) \in Seq(S) /\ Len(log) \in Nat
          /\ Len(Append(log, p)) = Len(log) + 1
          /\ \A k \in 1 .. Len(log) : Append(log, p)[k] = log[k]
          /\ Append(log, p)[Len(log) + 1] = p
      BY <3>1, Appended
    <3>3. log' = Append(log, p)
      BY <1>8, <2>3
    <3> QED
      BY <2>1, <2>3, <3>2, <3>3 DEF S
  <2> QED
    BY <2>2, <2>3
<1>10. \A k \in 2 .. Len(log') : log'[k] + Behind(ptr) <= arrived /\ ptr # head
  <2> TAKE k \in 2 .. Len(log')
  <2>1. CASE k \in 2 .. Len(log)
    <3>1. log'[k] = log[k] /\ log[k] \in Nat
      BY <1>9, <2>1
    <3>2. ptr # head
      BY <1>3, <2>1
    <3> QED
      BY <1>1, <1>3, <1>7, <2>1, <3>1, <3>2
  <2>2. CASE k \notin 2 .. Len(log)
    <3>1. p # 0 /\ k = Len(log) + 1 /\ log'[k] = p /\ Len(log) # 0
      BY <1>9, <2>2
    <3> QED
      BY <1>1, <1>3, <1>6, <1>7, <3>1
  <2> QED
    BY <2>1, <2>2
<1>11. PassOrder'
  <2> SUFFICES ASSUME NEW i \in 2 .. Len(log'), NEW j \in 2 .. Len(log'), i < j
               PROVE  log'[i] < log'[j]
    BY DEF PassOrder
  <2>1. i \in 2 .. Len(log) /\ log'[i] = log[i] /\ log[i] \in Nat
    BY <1>9
  <2>2. CASE j \in 2 .. Len(log)
    <3>1. log'[j] = log[j]
      BY <1>9, <2>2
    <3> QED
      BY <1>1, <2>1, <2>2, <3>1 DEF PassOrder
  <2>3. CASE j \notin 2 .. Len(log)
    <3>1. p # 0 /\ log'[j] = p
      BY <1>9, <2>3
    <3> QED
      BY <1>1, <1>3, <1>6, <1>7, <2>1, <3>1
  <2> QED
    BY <2>2, <2>3
<1>12. Passing'
  <2> SUFFICES ASSUME main' = "pass"
               PROVE  /\ ptr' = head' => log' = <<>>
                      /\ \A k \in 2 .. Len(log') : log'[k] + Behind(ptr)' < arrived'
    BY DEF Passing
  <2>1. next # head /\ ptr' = next
    BY DEF DispatchSlot, Turn
  <2>2. Behind(ptr)' = Behind(next)
    <3>1. Behind(ptr)' = IF ptr' <= LastStored' THEN LastStored' - ptr' ELSE LastStored' + QSize - ptr'
      BY DEF Behind
    <3> QED
      BY <1>2, <2>1, <3>1 DEF Behind
  <2> HIDE DEF next
  <2>3. ASSUME NEW k \in 2 .. Len(log')
        PROVE  log'[k] + Behind(next) < arrived
    <3>1. log'[k] + Behind(ptr) <= arrived /\ ptr # head
      BY <1>10
    <3>2. Behind(next) = Behind(ptr) - 1
      BY <1>1, <1>2, <3>1, OldestNext DEF next
    <3>3. log'[k] \in Nat
      BY <1>9
    <3> QED
      BY <1>1, <1>7, <3>1, <3>2, <3>3
  <2> QED
    BY <1>2, <2>1, <2>2, <2>3
<1> QED
  BY <1>5, <1>11, <1>12

LEMMA OrderInit == Init => OrderInv
<1> SUFFICES ASSUME Init
             PROVE  OrderInv
  OBVIOUS
<1>1. WholeHead
  BY DEF Init, WholeHead, OnlyReceived, Slots
<1>2. Placed /\ Passing
  BY DEF Init, Placed, Passing
<1>3. PassOrder
  <2>1. Len(log) = 0 /\ 2 .. 0 = {}
    BY DEF Init
  <2> QED
    BY <2>1 DEF PassOrder
<1> QED
  BY <1>1, <1>2, <1>3, BaseInit DEF OrderInv, WholeOrder

LEMMA OrderStep == OrderInv /\ [Next]_vars => OrderInv'
<1> SUFFICES ASSUME OrderInv, [Next]_vars
             PROVE  OrderInv'
  OBVIOUS
<1>1. Base' /\ WholeHead'
  BY BaseStep, WholeHeadStep DEF OrderInv
<1>2. build' = build
  BY DEF Next, Driver, Main, ReceiveLock, ReceiveAdvance, ReceiveStore,
         DispatchRead, DispatchLock, DispatchSlot, DispatchBeyond, vars
<1>3. ASSUME build = "whole"
      PROVE  (Placed /\ Passing /\ PassOrder)'
  <2>1. head \in Slots /\ ptr \in Slots /\ LockHeld
    BY <1>3 DEF OrderInv, WholeHead, Base
  <2>2. CASE ReceiveLock \/ UNCHANGED vars
    BY <1>3, <2>2, OrderKept DEF ReceiveLock, vars, LastStored
  <2>3. CASE ReceiveAdvance
    <3>1. LastStored' = LastStored
      BY <1>3, <2>1, <2>3 DEF ReceiveAdvance, LastStored, Wrapped, Slots
    <3>2. main # "pass"
      BY <2>1, <2>3 DEF ReceiveAdvance, LockHeld
    <3> QED
      BY <1>3, <2>3, <3>1, <3>2, OrderKept DEF ReceiveAdvance
  <2>4. CASE ReceiveStore
    BY <1>3, <2>4, OrderStore
  <2>5. CASE DispatchRead \/ DispatchLock
    BY <1>3, <2>5, OrderKept DEF DispatchRead, DispatchLock, LastStored
  <2>6. CASE DispatchSlot
    BY <1>3, <2>6, OrderSlot
  <2>7. CASE DispatchBeyond
    BY <2>1, <2>7 DEF DispatchBeyond, Slots
  <2> QED
    BY <2>2, <2>3, <2>4, <2>5, <2>6, <2>7 DEF Next, Driver, Main
<1> QED
  BY <1>1, <1>2, <1>3 DEF OrderInv, WholeOrder

(* In a build that stores the head once, every pass dispatches its packets   *)
(* in the order of their arrival from the second on, whatever slot the       *)
(* unlocked read made it begin at (mqttsnembed.cpp:161).                     *)
THEOREM PassesInOrder == Spec => []PassOrder
<1>1. OrderInv => PassOrder
  BY DEF OrderInv, WholeOrder, PassOrder
<1> QED
  BY <1>1, OrderInit, OrderStep, PTL DEF Spec

(* In such a build a packet that finds the ring full takes the place of the  *)
(* oldest one that waits ("Overwrites old queue messages",                   *)
(* mqttsnembed.hpp:203), also after passes that left older ones behind.      *)
THEOREM OldestLost == Spec => OverwritesOldest
<1>1. OrderInv /\ [Next]_vars =>
        [build = "whole" => \A p \in lost' \ lost : \A q \in Pending : p <= q]_vars
  <2> SUFFICES ASSUME OrderInv, [Next]_vars, build = "whole",
                      NEW p \in lost' \ lost, NEW q \in Pending
               PROVE  p <= q
    OBVIOUS
  <2>1. ReceiveStore
    BY DEF Next, Driver, Main, ReceiveLock, ReceiveAdvance, DispatchRead, DispatchLock,
           DispatchSlot, DispatchBeyond, vars
  <2>2. /\ head \in Slots /\ Behind(head) = QSize - 1
        /\ p = slot[head] /\ p # 0
    BY <2>1, StoreMoves DEF ReceiveStore
  <2>3. PICK i \in Slots : q = slot[i] /\ q # 0
    BY DEF Pending
  <2>4. Placed /\ arrived \in Nat /\ slot \in [Slots -> 0 .. MaxPackets]
    BY DEF OrderInv, WholeOrder, Base, TypeOK
  <2>5. Behind(i) \in Slots
    BY LastStoredSlot, BehindType DEF OrderInv
  <2>6. p + (QSize - 1) = arrived /\ q + Behind(i) = arrived /\ p \in Nat /\ q \in Nat
    BY <2>2, <2>3, <2>4 DEF Placed
  <2> QED
    BY <2>5, <2>6 DEF Slots
<1> QED
  BY <1>1, OrderInit, OrderStep, PTL DEF Spec, OverwritesOldest
====
