---- MODULE PacketStore ----
(* What the receive queue of MqttSnEmbed promises to the handlers, with the *)
(* ring, the lock and the two threads left out: a packet the driver hands   *)
(* over is kept until it is dispatched or until a later packet takes its    *)
(* place, and it is dispatched at most once ("Queue the data received until *)
(* dispatch is called. Overwrites old queue messages without error if not   *)
(* dispacted quickly", mqttsnembed.hpp:202-203).                            *)
(* Packets are named by their arrival number.                               *)
EXTENDS Naturals

CONSTANT MaxPackets \* bound on the packets of a behaviour

VARIABLES
  arrived,    \* how many packets the driver has handed over
  pending,    \* packets kept for the next dispatch
  dispatched, \* packets a handler has been called for
  lost        \* packets that were overwritten

storeVars == <<arrived, pending, dispatched, lost>>

Init ==
  /\ arrived = 0
  /\ pending = {}
  /\ dispatched = {}
  /\ lost = {}

(* The new packet finds room. *)
Keep ==
  /\ arrived < MaxPackets
  /\ arrived' = arrived + 1
  /\ pending' = pending \cup {arrived + 1}
  /\ UNCHANGED <<dispatched, lost>>

(* The new packet takes the place of one that waits. *)
Replace ==
  /\ arrived < MaxPackets
  /\ arrived' = arrived + 1
  /\ \E p \in pending :
       /\ pending' = (pending \ {p}) \cup {arrived + 1}
       /\ lost' = lost \cup {p}
  /\ UNCHANGED dispatched

Dispatch ==
  /\ \E p \in pending :
       /\ pending' = pending \ {p}
       /\ dispatched' = dispatched \cup {p}
  /\ UNCHANGED <<arrived, lost>>

Next == Keep \/ Replace \/ Dispatch

Spec == Init /\ [][Next]_storeVars
====
