---- MODULE Radio ----
(* What lies between a client and the gateway: the packet drivers, which are *)
(* not part of this repository, and the receive queues of PacketQueue. All   *)
(* that PacketStore promises is kept: a packet that was handed over waits    *)
(* until it is dispatched or lost, is dispatched at most once, and a pass    *)
(* may dispatch it before packets that came earlier.                         *)
EXTENDS Naturals, Bags

CONSTANT Capacity \* packets that wait on one side at a time
ASSUME CapacityAssumption == Capacity \in Nat \ {0}

VARIABLES
  toGateway, \* bag of the packets on their way to the gateway's handlers
  toClient   \* bag of the packets on their way to the client's handlers

radioVars == <<toGateway, toClient>>

(* A packet: its message id (0 where it has none), its QoS flags, the id and *)
(* the name of the topic it is about, and in "data" the rest of it that the  *)
(* handlers tell apart. A publish has its topic's id only (0 for a short     *)
(* topic); the name in one to the client is the topic it was published to.   *)
PacketAbout(type, id, qos, data, tid, name) ==
  [type |-> type, id |-> id, qos |-> qos, data |-> data, tid |-> tid, name |-> name]
Packet(type, id, qos, data) == PacketAbout(type, id, qos, data, 0, "")

(* addrwritemqtt: the packet arrives or is lost, at once or in the queue of  *)
(* the receiver. What it returns does not say which: the acknowledgement of  *)
(* a packet that arrived may be lost, and a driver without acknowledgements  *)
(* always succeeds.                                                          *)
Written(air, p) ==
  {air} \cup (IF BagCardinality(air) < Capacity THEN {air (+) SetToBag({p})} ELSE {})

Without(air, p) == air (-) SetToBag({p})
====
