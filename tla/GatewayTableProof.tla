---- MODULE GatewayTableProof ----
(* What GatewayTable guarantees for every number of places, all gateways and *)
(* every choice of those that advertise.                                     *)
EXTENDS GatewayTable, FiniteSetTheorems, TLAPS

USE GatewaysAssumption, MaxGatewaysAssumption

(* The searches find an entry if there is one: a set of places has a first,  *)
(* the i for which 1 .. i is smallest.                                       *)
LEMMA FirstIsMember ==
  ASSUME NEW S, S \subseteq Places, S # {}
  PROVE  First(S) \in S
<1> DEFINE R == StrictSubsetOrdering(Places)
           T == {1 .. i : i \in S}
<1>1. \A i \in S : i \in Nat /\ 1 .. i \in SUBSET Places
  BY DEF Places
<1>2. T \subseteq FiniteSubsetsOf(Places) /\ T # {}
  <2>1. \A i \in S : IsFiniteSet(1 .. i)
    BY <1>1, FS_Interval
  <2> QED
    BY <1>1, <2>1 DEF FiniteSubsetsOf
<1>3. IsWellFoundedOn(R, FiniteSubsetsOf(Places))
  BY FS_StrictSubsetOrderingWellFounded
<1>4. PICK x \in T : \A y \in T : ~(<<y, x>> \in R)
  <2> HIDE DEF R, T
  <2> QED
    BY <1>2, <1>3, WFMin
<1>5. PICK m \in S : x = 1 .. m
  OBVIOUS
<1>6. ASSUME NEW j \in S
      PROVE  m <= j
  <2>1. ~(<<1 .. j, 1 .. m>> \in R)
    BY <1>4, <1>5
  <2>2. ~(1 .. j \subseteq 1 .. m /\ 1 .. j # 1 .. m)
    BY <2>1, <1>1 DEF StrictSubsetOrdering
  <2>3. m \in Nat \ {0} /\ j \in Nat \ {0}
    BY DEF Places
  <2>4. j < m => 1 .. j \subseteq 1 .. m /\ m \notin 1 .. j /\ m \in 1 .. m
    BY <2>3
  <2> QED
    BY <2>2, <2>3, <2>4
<1> QED
  BY <1>6 DEF First

(* Only the gateways that advertise have entries that run out. *)
AdvertisedOnly == \A i \in Places : table[i].advertising => table[i].gwid \in Advertisers

TableOK == table \in [Places -> Entries \cup {Free}] /\ AdvertisedOnly

(* What the user added stays, and the gateways that do not advertise stay    *)
(* known.                                                                    *)
Kept ==
  \A i \in Places :
    table[i].permanent => table'[i].permanent /\ table'[i].gwid = table[i].gwid

StillKnown == \A g \in Gateways \ Advertisers : Known(table, g) => Known(table', g)

(* An entry is changed for the same gateway, or takes a place that is free   *)
(* or not active, without being another one learnt of its gateway.           *)
LEMMA OnePlace ==
  ASSUME TableOK, HeardOnce, NEW k \in Places, NEW e \in Entries,
         e.advertising => e.gwid \in Advertisers,
         table' = [table EXCEPT ![k] = e],
         \/ e.gwid = table[k].gwid /\ e.permanent = table[k].permanent
         \/ MayTake(table[k]) /\ (e.permanent \/ EntriesOf(e.gwid) = {})
  PROVE  TableOK' /\ HeardOnce' /\ Kept
<1> USE DEF TableOK
<1>1. \A i \in Places : table'[i] = IF i = k THEN e ELSE table[i]
  OBVIOUS
<1>2. TableOK'
  BY <1>1 DEF AdvertisedOnly
<1>3. Kept
  BY <1>1 DEF Kept, MayTake, Allocated, IsActive, Free, Entries
<1>4. HeardOnce'
  BY <1>1 DEF HeardOnce, MayTake, Allocated, EntriesOf, Free, Entries
<1> QED
  BY <1>2, <1>3, <1>4

LEMMA OnePlaceKnown ==
  ASSUME TableOK, NEW k \in Places, NEW e \in Entries,
         table' = [table EXCEPT ![k] = e],
         e.gwid = table[k].gwid \/ MayTake(table[k]),
         IsActive(e) \/ e.gwid \in Advertisers
  PROVE  StillKnown
<1> SUFFICES ASSUME NEW g \in Gateways \ Advertisers, Known(table, g)
             PROVE  Known(table', g)
  BY DEF StillKnown
<1>1. PICK i \in Places : table[i].gwid = g /\ IsActive(table[i])
  BY DEF Known, Matching
<1>2. \A j \in Places : table'[j] = IF j = k THEN e ELSE table[j]
  BY DEF TableOK
<1>3. table'[i].gwid = g /\ IsActive(table'[i])
  BY <1>1, <1>2 DEF MayTake, Allocated
<1> QED
  BY <1>3 DEF Known, Matching

(* add_gateway *)
LEMMA AddedStep ==
  ASSUME TableOK, HeardOnce, NEW e \in Entries, IsActive(e),
         e.advertising => e.gwid \in Advertisers,
         e.permanent \/ EntriesOf(e.gwid) = {},
         table' = Added(e)
  PROVE  TableOK' /\ HeardOnce' /\ Kept /\ StillKnown
<1>1. CASE Vacant = {}
  <2>1. table' = table
    BY <1>1 DEF Added
  <2> QED
    BY <2>1 DEF TableOK, AdvertisedOnly, HeardOnce, Kept, StillKnown
<1>2. CASE Vacant # {}
  <2> DEFINE k == First(Vacant)
  <2>1. k \in Places /\ MayTake(table[k])
    BY <1>2, FirstIsMember DEF Vacant
  <2>2. table' = [table EXCEPT ![k] = e]
    BY <1>2 DEF Added
  <2> HIDE DEF k
  <2> QED
    BY <2>1, <2>2, OnePlace, OnePlaceKnown
<1> QED
  BY <1>1, <1>2

(* received_advertised and received_gwinfo: update_gateway, or else          *)
(* add_gateway.                                                              *)
LEMMA HeardStep ==
  ASSUME TableOK, HeardOnce, NEW g \in Gateways, NEW advertising \in BOOLEAN,
         advertising => g \in Advertisers,
         table' = Heard(g, advertising)
  PROVE  TableOK' /\ HeardOnce' /\ Kept /\ StillKnown
<1>1. CASE EntriesOf(g) # {}
  <2> DEFINE k == First(EntriesOf(g))
             e == Entry(g, table[k].permanent, table[k].advertising \/ advertising)
  <2>1. k \in Places /\ table[k].gwid = g
    BY <1>1, FirstIsMember DEF EntriesOf
  <2>2. table' = [table EXCEPT ![k] = e]
    BY <1>1 DEF Heard, Updated
  <2>3. table[k] \in Entries
    BY <2>1 DEF TableOK, Free
  <2>4. e \in Entries /\ e.gwid = g /\ e.permanent = table[k].permanent /\ IsActive(e)
        /\ (e.advertising => e.gwid \in Advertisers)
    BY <2>1, <2>3 DEF Entry, Entries, IsActive, TableOK, AdvertisedOnly
  <2> HIDE DEF k, e
  <2> QED
    BY <2>1, <2>2, <2>4, OnePlace, OnePlaceKnown
<1>2. CASE EntriesOf(g) = {}
  <2> DEFINE e == Entry(g, FALSE, advertising)
  <2>1. table' = Added(e)
    BY <1>2 DEF Heard
  <2>2. e \in Entries /\ e.gwid = g /\ IsActive(e) /\ (e.advertising => e.gwid \in Advertisers)
    BY DEF Entry, Entries, IsActive
  <2> HIDE DEF e
  <2> QED
    BY <1>2, <2>1, <2>2, AddedStep
<1> QED
  BY <1>1, <1>2

----------------------------------------------------------------------------
IInv == TypeOK /\ TableOK /\ HeardOnce /\ ConnectedKnown

LEMMA IInvInit == Init => IInv
<1> SUFFICES ASSUME Init
             PROVE  IInv
  OBVIOUS
<1>1. \A i \in Places : table[i] = Free
  BY DEF Init
<1>2. TypeOK
  BY DEF Init, TypeOK, Answers
<1>3. TableOK
  BY <1>1, <1>2 DEF TypeOK, TableOK, AdvertisedOnly, Free
<1>4. HeardOnce
  BY <1>1 DEF HeardOnce, Allocated, Free
<1>5. ConnectedKnown
  BY DEF Init, ConnectedKnown
<1> QED
  BY <1>2, <1>3, <1>4, <1>5 DEF IInv

(* The actions that leave the table alone, and those that leave the          *)
(* connection alone.                                                         *)
LEMMA TableStays ==
  ASSUME IInv, UNCHANGED table
  PROVE  TableOK' /\ HeardOnce' /\ Kept /\ StillKnown
BY DEF IInv, TableOK, AdvertisedOnly, HeardOnce, Kept, StillKnown

LEMMA ConnectedStays ==
  ASSUME IInv, UNCHANGED connVars, StillKnown
  PROVE  ConnectedKnown'
BY DEF IInv, TypeOK, ConnectedKnown, connVars, StillKnown

(* connect() and the end of a connection. *)
LEMMA ConnectingStep ==
  ASSUME NEW t, NEW g, Connecting(t, g), t \in [Places -> Entries \cup {Free}], table' = t
  PROVE  g \in Gateways /\ ConnectedKnown'
<1>1. PICK i \in Places : t[i].gwid = g /\ g # NoGateway
  BY DEF Connecting, Known, Matching
<1>2. g \in Gateways
  BY <1>1 DEF Entries, Free
<1> QED
  BY <1>2 DEF Connecting, ConnectedKnown

LEMMA EndedStep ==
  ASSUME IInv, NEW t, NEW g, Ended(t, g), t \in [Places -> Entries \cup {Free}], table' = t
  PROVE  /\ ConnectedKnown'
         /\ state' \in {"connecting", "disconnected"} /\ gwid' \in Gateways \cup {NoGateway}
         /\ state' # "disconnected" => gwid' \in Gateways
         /\ pending' \in BOOLEAN /\ trying' \in BOOLEAN
<1>1. CASE Connecting(t, g) /\ trying' = FALSE
  BY <1>1, ConnectingStep DEF Connecting
<1>2. CASE state' = "disconnected" /\ pending' = FALSE /\ UNCHANGED gwid
           /\ trying' = (trying /\ g = NoGateway)
  BY <1>2 DEF ConnectedKnown, IInv, TypeOK
<1> QED
  BY <1>1, <1>2 DEF Ended
----------------------------------------------------------------------------
(* Every step keeps the invariant, and what the user added.                  *)
LEMMA IInvStep ==
  ASSUME IInv, [Next]_vars
  PROVE  IInv' /\ Kept
<1> USE DEF IInv
<1>1. CASE Attempt
  <2>1. TableOK' /\ HeardOnce' /\ Kept
    BY <1>1, TableStays DEF Attempt
  <2>2. PICK g \in KnownGateway : Connecting(table, g)
    BY <1>1 DEF Attempt
  <2>3. g \in Gateways /\ ConnectedKnown'
    BY <1>1, <2>2, ConnectingStep DEF Attempt, TableOK
  <2>4. TypeOK'
    BY <1>1, <2>2, <2>3 DEF Attempt, TypeOK, Connecting
  <2> QED
    BY <2>1, <2>3, <2>4
<1>2. CASE Search
  <2>1. TableOK' /\ HeardOnce' /\ Kept /\ StillKnown
    BY <1>2, TableStays DEF Search
  <2>2. ConnectedKnown'
    BY <1>2, <2>1, ConnectedStays DEF Search
  <2>3. TypeOK'
    BY <1>2 DEF Search, TypeOK, connVars, Answers
  <2> QED
    BY <2>1, <2>2, <2>3
<1>3. CASE UserConnects
  <2>1. TableOK' /\ HeardOnce' /\ Kept
    BY <1>3, TableStays DEF UserConnects
  <2>2. PICK g \in KnownGateway : Connecting(table, g)
    BY <1>3 DEF UserConnects
  <2>3. g \in Gateways /\ ConnectedKnown'
    BY <1>3, <2>2, ConnectingStep DEF UserConnects, TableOK
  <2>4. TypeOK'
    BY <1>3, <2>2, <2>3 DEF UserConnects, TypeOK, Connecting
  <2> QED
    BY <2>1, <2>3, <2>4
<1>4. CASE AddGateway
  <2>1. PICK g \in Gateways : table' = Added(Entry(g, TRUE, FALSE))
    BY <1>4 DEF AddGateway
  <2> DEFINE e == Entry(g, TRUE, FALSE)
  <2>2. e \in Entries /\ IsActive(e) /\ e.permanent /\ ~e.advertising
    BY DEF Entry, Entries, IsActive
  <2>3. TableOK' /\ HeardOnce' /\ Kept /\ StillKnown
    <3> HIDE DEF e
    <3>1. table' = Added(e)
      BY <2>1 DEF e
    <3> QED
      BY <3>1, <2>2, AddedStep
  <2>4. ConnectedKnown'
    BY <1>4, <2>3, ConnectedStays DEF AddGateway
  <2>5. TypeOK'
    BY <1>4, <2>3 DEF AddGateway, TypeOK, TableOK, connVars
  <2> QED
    BY <2>3, <2>4, <2>5
<1>5. CASE LostContact
  <2>1. CASE Known(table, gwid) /\ table' = [table EXCEPT ![First(Matching(table, gwid))].active = FALSE]
             /\ Ended(table', gwid)
    <3> DEFINE k == First(Matching(table, gwid))
               e == [table[k] EXCEPT !.active = FALSE]
    <3>1. k \in Places /\ table[k].gwid = gwid /\ gwid # NoGateway
      BY <2>1, FirstIsMember DEF Known, Matching
    <3>2. table[k] \in Entries
      BY <3>1 DEF TableOK, Free
    <3>3. e \in Entries /\ e.gwid = table[k].gwid /\ e.permanent = table[k].permanent
          /\ (e.advertising => e.gwid \in Advertisers)
      BY <3>1, <3>2 DEF Entries, TableOK, AdvertisedOnly
    <3>4. table' = [table EXCEPT ![k] = e]
      BY <2>1
    <3>5. TableOK' /\ HeardOnce' /\ Kept
      <4> HIDE DEF k, e
      <4> QED
        BY <3>1, <3>3, <3>4, OnePlace
    <3>6. table' \in [Places -> Entries \cup {Free}]
      BY <3>5 DEF TableOK
    <3>7. /\ ConnectedKnown'
          /\ state' \in {"connecting", "disconnected"} /\ gwid' \in Gateways \cup {NoGateway}
          /\ state' # "disconnected" => gwid' \in Gateways
          /\ pending' \in BOOLEAN /\ trying' \in BOOLEAN
      BY <2>1, <3>6, EndedStep
    <3>8. TypeOK'
      BY <1>5, <3>6, <3>7 DEF LostContact, TypeOK
    <3> QED
      BY <3>5, <3>7, <3>8
  <2>2. CASE ~Known(table, gwid) /\ state' = "crashed"
             /\ UNCHANGED <<table, gwid, pending, trying>>
    <3>1. TableOK' /\ HeardOnce' /\ Kept
      BY <2>2, TableStays
    <3>2. ConnectedKnown'
      BY <1>5, <2>2 DEF LostContact, ConnectedKnown
    <3>3. TypeOK'
      BY <1>5, <2>2 DEF LostContact, TypeOK
    <3> QED
      BY <3>1, <3>2, <3>3
  <2> QED
    BY <1>5, <2>1, <2>2 DEF LostContact
<1>6. CASE GiveUp
  <2>1. TableOK' /\ HeardOnce' /\ Kept
    BY <1>6, TableStays DEF GiveUp
  <2>2. ConnectedKnown' /\ TypeOK'
    BY <1>6 DEF GiveUp, ConnectedKnown, TypeOK
  <2> QED
    BY <2>1, <2>2
<1>7. ASSUME NEW g \in Advertisers, ReceiveAdvertise(g)
      PROVE  IInv' /\ Kept
  <2>1. TableOK' /\ HeardOnce' /\ Kept /\ StillKnown
    BY <1>7, HeardStep DEF ReceiveAdvertise
  <2>2. ConnectedKnown'
    BY <1>7, <2>1, ConnectedStays DEF ReceiveAdvertise
  <2>3. TypeOK'
    BY <1>7, <2>1 DEF ReceiveAdvertise, TypeOK, TableOK, connVars
  <2> QED
    BY <2>1, <2>2, <2>3
<1>8. ASSUME NEW g \in Gateways, ReceiveGwinfo(g)
      PROVE  IInv' /\ Kept
  <2>1. TableOK' /\ HeardOnce' /\ Kept /\ StillKnown
    BY <1>8, HeardStep DEF ReceiveGwinfo
  <2>2. ConnectedKnown'
    BY <1>8, <2>1 DEF ReceiveGwinfo, TypeOK, ConnectedKnown, StillKnown
  <2>3. TypeOK'
    BY <1>8, <2>1 DEF ReceiveGwinfo, Takes, TypeOK, TableOK
  <2> QED
    BY <2>1, <2>2, <2>3
<1>9. ASSUME NEW g \in Gateways, ReceivePingresp(g)
      PROVE  IInv' /\ Kept
  <2> DEFINE k == First(Matching(table, g))
             e == [table[k] EXCEPT !.active = TRUE, !.fresh = TRUE]
  <2>1. k \in Places /\ table[k].gwid = g
    BY <1>9, FirstIsMember DEF ReceivePingresp, Known, Matching
  <2>2. table[k] \in Entries
    BY <2>1 DEF TableOK, Free
  <2>3. e \in Entries /\ e.gwid = table[k].gwid /\ e.permanent = table[k].permanent
        /\ IsActive(e) /\ (e.advertising => e.gwid \in Advertisers)
    BY <2>1, <2>2 DEF Entries, IsActive, TableOK, AdvertisedOnly
  <2>4. table' = [table EXCEPT ![k] = e]
    BY <1>9, <2>1, <2>2 DEF ReceivePingresp, Entries, TableOK
  <2>5. TableOK' /\ HeardOnce' /\ Kept /\ StillKnown
    <3> HIDE DEF k, e
    <3> QED
      BY <2>1, <2>3, <2>4, OnePlace, OnePlaceKnown
  <2>6. ConnectedKnown'
    BY <1>9, <2>5, ConnectedStays DEF ReceivePingresp
  <2>7. TypeOK'
    BY <1>9, <2>5 DEF ReceivePingresp, TypeOK, TableOK, connVars
  <2> QED
    BY <2>5, <2>6, <2>7
<1>10. ASSUME NEW g \in Gateways, ReceiveConnack(g)
       PROVE  IInv' /\ Kept
  <2>1. TableOK' /\ HeardOnce' /\ Kept
    BY <1>10, TableStays DEF ReceiveConnack
  <2>2. ConnectedKnown' /\ TypeOK'
    BY <1>10 DEF ReceiveConnack, Takes, ConnectedKnown, TypeOK
  <2> QED
    BY <2>1, <2>2
<1>11. ASSUME NEW g \in Gateways, ReceiveDisconnect(g)
       PROVE  IInv' /\ Kept
  <2>1. TableOK' /\ HeardOnce' /\ Kept
    BY <1>11, TableStays DEF ReceiveDisconnect
  <2>2. table' \in [Places -> Entries \cup {Free}] /\ Ended(table', IdOfSender(g))
    BY <1>11 DEF ReceiveDisconnect, TableOK
  <2>3. ConnectedKnown' /\ TypeOK'
    BY <1>11, <2>2, EndedStep DEF ReceiveDisconnect, TypeOK
  <2> QED
    BY <2>1, <2>3
<1>12. CASE AnswerConnect
  <2>1. TableOK' /\ HeardOnce' /\ Kept /\ StillKnown
    BY <1>12, TableStays DEF AnswerConnect
  <2>2. ConnectedKnown'
    BY <1>12, <2>1, ConnectedStays DEF AnswerConnect
  <2>3. TypeOK'
    BY <1>12 DEF AnswerConnect, TypeOK, connVars, Answers
  <2> QED
    BY <2>1, <2>2, <2>3
<1>13. ASSUME NEW p \in Answers, Lose(p)
       PROVE  IInv' /\ Kept
  <2>1. TableOK' /\ HeardOnce' /\ Kept /\ StillKnown
    BY <1>13, TableStays DEF Lose
  <2>2. ConnectedKnown'
    BY <1>13, <2>1, ConnectedStays DEF Lose
  <2>3. TypeOK'
    BY <1>13 DEF Lose, TypeOK, connVars
  <2> QED
    BY <2>1, <2>2, <2>3
<1>14. CASE GatewayStops
  <2>1. TableOK' /\ HeardOnce' /\ Kept /\ StillKnown
    BY <1>14, TableStays DEF GatewayStops
  <2>2. ConnectedKnown'
    BY <1>14, <2>1, ConnectedStays DEF GatewayStops
  <2>3. TypeOK'
    BY <1>14 DEF GatewayStops, TypeOK, connVars
  <2> QED
    BY <2>1, <2>2, <2>3
<1>15. ASSUME NEW i \in Places, Expire(i)
       PROVE  IInv' /\ Kept
  <2> DEFINE e == [table[i] EXCEPT !.fresh = FALSE]
  <2>1. table[i] \in Entries /\ table[i].gwid \in Advertisers
    BY <1>15 DEF Expire, TableOK, AdvertisedOnly, Free
  <2>2. e \in Entries /\ e.gwid = table[i].gwid /\ e.permanent = table[i].permanent
        /\ e.gwid \in Advertisers
    BY <2>1 DEF Entries
  <2>3. table' = [table EXCEPT ![i] = e]
    BY <1>15 DEF Expire
  <2>4. TableOK' /\ HeardOnce' /\ Kept /\ StillKnown
    <3> HIDE DEF e
    <3> QED
      BY <2>2, <2>3, OnePlace, OnePlaceKnown
  <2>5. ConnectedKnown'
    BY <1>15, <2>4, ConnectedStays DEF Expire
  <2>6. TypeOK'
    BY <1>15, <2>4 DEF Expire, TypeOK, TableOK, connVars
  <2> QED
    BY <2>4, <2>5, <2>6
<1>16. CASE UNCHANGED vars
  <2>1. TableOK' /\ HeardOnce' /\ Kept /\ StillKnown
    BY <1>16, TableStays DEF vars
  <2>2. ConnectedKnown'
    BY <1>16, <2>1, ConnectedStays DEF vars
  <2>3. TypeOK'
    BY <1>16 DEF vars, connVars, TypeOK
  <2> QED
    BY <2>1, <2>2, <2>3
<1> QED
  BY <1>1, <1>2, <1>3, <1>4, <1>5, <1>6, <1>7, <1>8, <1>9, <1>10, <1>11, <1>12, <1>13,
     <1>14, <1>15, <1>16 DEF Next

(* The invariant holds in every reachable state.                             *)
THEOREM Invariance == Spec => []IInv
<1>1. IInv /\ [Next]_vars => IInv'
  BY IInvStep
<1> QED
  BY IInvInit, <1>1, PTL DEF Spec

(* The variables keep their types: the attempt to connect always names a     *)
(* gateway, whatever answers, fails or is searched for.                      *)
THEOREM Typed == Spec => []TypeOK
<1>1. IInv => TypeOK
  BY DEF IInv
<1> QED
  BY Invariance, <1>1, PTL

(* update_gateway and add_gateway never keep a gateway twice that was heard. *)
THEOREM NeverKeptTwice == Spec => []HeardOnce
<1>1. IInv => HeardOnce
  BY DEF IInv
<1> QED
  BY Invariance, <1>1, PTL

(* A gateway that does not advertise is known as long as the client connects *)
(* or is connected: manage_gw_connection reads no entry that is not there.   *)
THEOREM NeverUnknown == Spec => []ConnectedKnown
<1>1. IInv => ConnectedKnown
  BY DEF IInv
<1> QED
  BY Invariance, <1>1, PTL

(* A gateway the user added is never replaced.                               *)
THEOREM NeverForgotten == Spec => PermanentKept
<1>1. IInv /\ [Next]_vars => Kept
  BY IInvStep
<1>2. IInv /\ [Next]_vars =>
        [\A i \in Places :
           table[i].permanent => table'[i].permanent /\ table'[i].gwid = table[i].gwid]_vars
  BY <1>1 DEF Kept
<1> QED
  BY Invariance, <1>2, PTL DEF Spec, PermanentKept
====
