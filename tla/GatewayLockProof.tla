---- MODULE GatewayLockProof ----
(* What the error checking mutex guarantees, for any number of topics, and    *)
(* what a complete walk asks of the code beyond it. (GatewayLock itself has a  *)
(* counterexample to WalkComplete.)                                            *)
EXTENDS GatewayLock, TLAPS

(* The mutex is held exactly in the protected sections.                      *)
Held == \A t \in Threads : owner = t <=> Protected(t)

IInv == TypeOK /\ Held

LEMMA IInvInit == ASSUME Topics \in Nat \ {0} PROVE Init => IInv
BY DEF Init, IInv, TypeOK, Held, Protected, Threads

LEMMA LockHolds ==
  ASSUME IInv, NEW t \in Threads, section[t] < 2, Lock(t)
  PROVE  /\ owner' \in Threads \cup {"none"} /\ section' \in [Threads -> 0 .. 2]
         /\ freed' \subseteq Threads /\ Held'
BY DEF IInv, TypeOK, Held, Protected, Threads, Lock

LEMMA UnlockHolds ==
  ASSUME IInv, NEW t \in Threads, section[t] > 0, Unlock(t)
  PROVE  /\ owner' \in Threads \cup {"none"} /\ section' \in [Threads -> 0 .. 2]
         /\ freed' \subseteq Threads /\ Held'
BY DEF IInv, TypeOK, Held, Protected, Threads, Unlock

LEMMA IteratorStays ==
  ASSUME Topics \in Nat \ {0}, TypeOK, First \/ Following
  PROVE  iterator' \in 0 .. Topics
BY DEF TypeOK, First, Following

LEMMA IInvStep ==
  ASSUME Topics \in Nat \ {0}, IInv, [Next]_vars
  PROVE  IInv'
<1>t. /\ TypeOK /\ Held
      /\ "main" \in Threads /\ "mosquitto" \in Threads
      /\ section["main"] \in 0 .. 2 /\ section["mosquitto"] \in 0 .. 2
  BY DEF IInv, TypeOK, Threads
<1>1. CASE MainLock
  BY <1>1, <1>t, LockHolds DEF MainLock, IInv, TypeOK
<1>2. CASE MainUnlock
  BY <1>2, <1>t, UnlockHolds DEF MainUnlock, IInv, TypeOK
<1>3. CASE MainIterate
  BY <1>3, <1>t, IteratorStays DEF MainIterate, IInv, TypeOK, Held, Protected
<1>4. CASE WalkBegin
  <2>1. section["mosquitto"] < 2 /\ Lock("mosquitto")
    BY <1>4 DEF WalkBegin
  <2>2. iterator' \in 0 .. Topics /\ visited' \subseteq 1 .. Topics
    BY <1>4 DEF WalkBegin, First
  <2> QED
    BY <2>1, <2>2, <1>t, LockHolds DEF IInv, TypeOK
<1>5. CASE WalkStep
  <2>1. iterator' \in 0 .. Topics
    BY <1>5, <1>t, IteratorStays DEF WalkStep
  <2>2. visited' \subseteq 1 .. Topics
    BY <1>5, <1>t DEF WalkStep, TypeOK
  <2> QED
    BY <1>5, <1>t, <2>1, <2>2 DEF WalkStep, IInv, TypeOK, Held, Protected
<1>6. CASE WalkRegister
  <2>1. section["mosquitto"] < 2 /\ Lock("mosquitto")
    BY <1>6 DEF WalkRegister
  <2> QED
    BY <1>6, <2>1, <1>t, LockHolds DEF WalkRegister, IInv, TypeOK
<1>7. CASE WalkRegistered
  <2>1. section["mosquitto"] > 0 /\ Unlock("mosquitto")
    BY <1>7 DEF WalkRegistered
  <2>2. iterator' \in 0 .. Topics /\ visited' \subseteq 1 .. Topics
    BY <1>7 DEF WalkRegistered, First
  <2> QED
    BY <2>1, <2>2, <1>t, UnlockHolds DEF IInv, TypeOK
<1>8. CASE WalkEnd
  <2>1. section["mosquitto"] > 0 /\ Unlock("mosquitto")
    BY <1>8 DEF WalkEnd
  <2> QED
    BY <1>8, <2>1, <1>t, UnlockHolds DEF WalkEnd, IInv, TypeOK
<1>9. CASE UNCHANGED vars
  BY <1>9 DEF vars, IInv, TypeOK, Held, Protected
<1> QED
  BY <1>1, <1>2, <1>3, <1>4, <1>5, <1>6, <1>7, <1>8, <1>9 DEF Next

(* The mutex is free, or held by the one thread that is in a protected       *)
(* section; sections are never more than two deep and the iterator stays on  *)
(* the topics.                                                               *)
THEOREM HeldWhereProtected ==
  ASSUME Topics \in Nat \ {0}
  PROVE  Spec => [](TypeOK /\ Held)
<1>1. IInv /\ [Next]_vars => IInv'
  BY IInvStep
<1>2. IInv => TypeOK /\ Held
  BY DEF IInv
<1> QED
  BY IInvInit, <1>1, <1>2, PTL DEF Spec

(* The two threads are never in protected sections at the same time: the      *)
(* error checking mutex excludes outermost sections until an inner one has    *)
(* been left, and inner ones. What follows an inner section it does not.      *)
THEOREM ProtectedExclude ==
  ASSUME Topics \in Nat \ {0}
  PROVE  Spec => []~(Protected("main") /\ Protected("mosquitto"))
<1>1. TypeOK /\ Held => ~(Protected("main") /\ Protected("mosquitto"))
  BY DEF Held, Threads
<1> QED
  BY HeldWhereProtected, <1>1, PTL

----------------------------------------------------------------------------
(* The iterator moves in protected sections of the main thread only: no      *)
(* handler goes on to it after a function that took the lock again.          *)
IteratesProtected == MainIterate => Protected("main")

(* A walk that has registered no name has looked at the topics before the    *)
(* iterator.                                                                 *)
Walked ==
  section["mosquitto"] = 1 /\ "mosquitto" \notin freed =>
    visited = IF iterator = 0 THEN 1 .. Topics ELSE 1 .. iterator - 1

LEMMA WalkedInit == Init => Walked
BY DEF Init, Walked, Threads

LEMMA WalkedStep ==
  ASSUME Topics \in Nat \ {0}, IInv, Walked, [Next /\ IteratesProtected]_vars
  PROVE  Walked'
<1>t. /\ section["main"] \in 0 .. 2 /\ section["mosquitto"] \in 0 .. 2
      /\ section \in [Threads -> 0 .. 2] /\ iterator \in 0 .. Topics
      /\ owner = "main" <=> Protected("main")
      /\ owner = "mosquitto" <=> Protected("mosquitto")
  BY DEF IInv, TypeOK, Held, Threads
<1>1. CASE MainLock
  BY <1>1, <1>t DEF MainLock, Lock, Walked, Threads
<1>2. CASE MainUnlock
  BY <1>2, <1>t DEF MainUnlock, Unlock, Walked, Threads
<1>3. CASE MainIterate /\ IteratesProtected
  <2>1. ~Protected("mosquitto")
    BY <1>3, <1>t DEF IteratesProtected
  <2> QED
    BY <1>3, <2>1 DEF MainIterate, Walked, Protected
<1>4. CASE WalkBegin
  <2>1. iterator' = 1 /\ visited' = 1 .. 0
    BY <1>4 DEF WalkBegin, First
  <2> QED
    BY <2>1 DEF Walked
<1>5. CASE WalkStep
  <2> SUFFICES ASSUME "mosquitto" \notin freed
               PROVE  visited' = IF iterator' = 0 THEN 1 .. Topics ELSE 1 .. iterator' - 1
    BY <1>5 DEF WalkStep, Walked
  <2>1. /\ section["mosquitto"] = 1 /\ iterator \in 1 .. Topics
        /\ visited' = (1 .. iterator - 1) \cup {iterator}
    BY <1>5, <1>t DEF WalkStep, Walked
  <2>2. visited' = 1 .. iterator
    BY <2>1
  <2>3. CASE iterator < Topics
    <3>1. iterator' = iterator + 1
      BY <1>5, <2>1, <2>3 DEF WalkStep, Following
    <3> QED
      BY <2>1, <2>2, <3>1
  <2>4. CASE iterator = Topics
    <3>1. iterator' = 0
      BY <1>5, <2>1, <2>4 DEF WalkStep, Following
    <3> QED
      BY <2>2, <2>4, <3>1
  <2> QED
    BY <2>1, <2>3, <2>4
<1>6. CASE WalkRegister
  BY <1>6, <1>t DEF WalkRegister, Lock, Walked, Threads
<1>7. CASE WalkRegistered
  BY <1>7, <1>t DEF WalkRegistered, Unlock, Walked, Threads
<1>8. CASE WalkEnd
  BY <1>8, <1>t DEF WalkEnd, Unlock, Walked, Threads
<1>9. CASE UNCHANGED vars
  BY <1>9 DEF vars, Walked
<1> QED
  BY <1>1, <1>2, <1>3, <1>4, <1>5, <1>6, <1>7, <1>8, <1>9 DEF Next

(* Where a walk of gateway_message_callback passes a subscriber over: only    *)
(* where a handler has moved the iterator after an inner section freed its    *)
(* lock, or the callback itself has registered a name before.                 *)
THEOREM WalkNeedsProtection ==
  ASSUME Topics \in Nat \ {0}
  PROVE  Spec /\ [][IteratesProtected]_vars =>
           [][WalkEnd /\ "mosquitto" \notin freed => visited = 1 .. Topics]_vars
<1>1. IInv /\ [Next]_vars => IInv'
  BY IInvStep
<1>2. IInv /\ Walked /\ [Next /\ IteratesProtected]_vars => Walked'
  BY WalkedStep
<1>3. [Next]_vars /\ [IteratesProtected]_vars => [Next /\ IteratesProtected]_vars
  OBVIOUS
<1>4. Walked /\ [Next]_vars =>
        [WalkEnd /\ "mosquitto" \notin freed => visited = 1 .. Topics]_vars
  BY DEF Walked, WalkEnd
<1> QED
  BY IInvInit, WalkedInit, <1>1, <1>2, <1>3, <1>4, PTL DEF Spec
====
