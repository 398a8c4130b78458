---- MODULE Delivery ----
(* What gateway and client promise of the broker's messages: a message is     *)
(* confirmed only after it was delivered, and delivered only if the broker    *)
(* handed it over. It may be delivered again, or never.                       *)
EXTENDS Naturals

CONSTANT MaxMessages \* bound: messages the broker hands over

VARIABLES
  messages,  \* messages handed over so far
  delivered, \* those the application of the client was given
  confirmed  \* those the gateway takes for delivered

vars == <<messages, delivered, confirmed>>

Init == messages = 0 /\ delivered = {} /\ confirmed = {}

HandOver ==
  /\ messages < MaxMessages
  /\ messages' = messages + 1
  /\ UNCHANGED <<delivered, confirmed>>

Deliver(n) ==
  /\ delivered' = delivered \cup {n}
  /\ UNCHANGED <<messages, confirmed>>

Confirm(n) ==
  /\ n \in delivered
  /\ confirmed' = confirmed \cup {n}
  /\ UNCHANGED <<messages, delivered>>

Next == HandOver \/ \E n \in 1 .. messages : Deliver(n) \/ Confirm(n)

Spec == Init /\ [][Next]_vars
====
