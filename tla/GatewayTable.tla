---- MODULE GatewayTable ----
(* The gateways a client knows, m_gwinfo of ClientMqttSn, the one it is      *)
(* connected to, and the two programs that use them: autoclient, which       *)
(* connects on its own, and mqttclientapp, whose user does.                  *)
(*                                                                           *)
(* A gateway's address goes with its id. Of the ring only the message that   *)
(* drives an attempt to connect is kept (Client has the ring); whether a     *)
(* SEARCHGW is active besides is left open. So is time: an advertisement     *)
(* runs out, contact is lost and an attempt is given up at any moment.       *)
EXTENDS Naturals, FiniteSets

CONSTANTS
  Gateways,     \* the ids of gateways
  NoGateway,    \* id 0, that of an entry without a gateway
  Advertisers,  \* the gateways that advertise, see set_advertise_interval
  MaxGateways,  \* MQTT_MAX_GATEWAYS
  MaxAir,       \* bound: answers of a kind under way at a time
  Programs      \* of "autoclient" and "mqttclientapp"

ASSUME GatewaysAssumption == NoGateway \notin Gateways /\ Advertisers \subseteq Gateways
ASSUME MaxGatewaysAssumption == MaxGateways \in Nat \ {0}
ASSUME ProgramsAssumption == Programs \subseteq {"autoclient", "mqttclientapp"}

VARIABLES
  table,    \* m_gwinfo
  state,    \* State of m_client_connection, or "crashed"
  gwid,     \* its m_gwid
  pending,  \* the CONNECT is an active message
  trying,   \* bconnecting of autoclient
  air,      \* answers under way to the client
  alive,    \* the gateways that run
  program   \* which of Programs runs

connVars == <<state, gwid, pending, trying>>
vars == <<table, connVars, air, alive, program>>

Places == 1 .. MaxGateways

Entry(g, permanent, advertising) ==
  [gwid |-> g, permanent |-> permanent, advertising |-> advertising, active |-> TRUE,
   fresh |-> TRUE]

(* MqttGwInfo::reset().                                                      *)
Free == [gwid |-> NoGateway, permanent |-> FALSE, advertising |-> FALSE, active |-> FALSE,
         fresh |-> FALSE]

Allocated(e) == e.gwid # NoGateway

(* Changed: the advertised duration is not looked at. *)
MutantIsActive(e) == e.permanent \/ e.active

IsActive(e) == e.permanent \/ (IF e.advertising THEN e.fresh ELSE e.active)

First(S) == CHOOSE i \in S : \A j \in S : i <= j

(* get_gateway: the first active entry of g.                                 *)
Matching(t, g) == {i \in Places : t[i].gwid = g /\ IsActive(t[i])}
Known(t, g) == g # NoGateway /\ Matching(t, g) # {}

(* get_gateway_address of a sender: 0 if it is not known.                    *)
IdOfSender(g) == IF Known(table, g) THEN g ELSE NoGateway

----------------------------------------------------------------------------
(* Changed: the flag itself is looked at. *)
MutantMayTake(e) == ~Allocated(e) \/ ~e.active

MayTake(e) == ~Allocated(e) \/ ~IsActive(e)

(* add_gateway                                                               *)
Vacant == {i \in Places : MayTake(table[i])}
Added(e) == IF Vacant = {} THEN table ELSE [table EXCEPT ![First(Vacant)] = e]

(* Changed: only an active entry is updated, as in the other searches. *)
MutantEntriesOf(g) == {i \in Places : table[i].gwid = g /\ IsActive(table[i])}

(* update_gateway. An entry need not be active to be found.                  *)
EntriesOf(g) == {i \in Places : table[i].gwid = g}
Updated(g, advertising) ==
  [table EXCEPT ![First(EntriesOf(g))] =
     Entry(g, @.permanent, @.advertising \/ advertising)]

Heard(g, advertising) ==
  IF EntriesOf(g) # {} THEN Updated(g, advertising) ELSE Added(Entry(g, FALSE, advertising))

----------------------------------------------------------------------------
Init ==
  /\ table = [i \in Places |-> Free]
  /\ state = "disconnected" /\ gwid = NoGateway
  /\ pending = FALSE /\ trying = FALSE
  /\ air = {}
  /\ alive \in SUBSET Gateways
  /\ program \in Programs

Running == state # "crashed"

Answers == [type : {"GWINFO", "CONNACK"}, gwid : Gateways]
UnderWay(type) == Cardinality({p \in air : p.type = type})

(* Changed: connect() does not ask for the gateway. *)
MutantConnecting(t, g) ==
  /\ state' = "connecting"
  /\ gwid' = g
  /\ pending' = TRUE

(* connect(). It fails with a gateway that is not known.                     *)
Connecting(t, g) ==
  /\ Known(t, g)
  /\ state' = "connecting"
  /\ gwid' = g
  /\ pending' = TRUE

(* m_fndisconnected with the gateway g, after the connection has ended.      *)
(* autoclient connects again if it can, and forgets that it does.            *)
Ended(t, g) ==
  \/ /\ program = "autoclient"
     /\ Connecting(t, g)
     /\ trying' = FALSE
  \/ /\ program # "autoclient" \/ ~Known(t, g)
     /\ state' = "disconnected"
     /\ pending' = FALSE
     /\ trying' = (trying /\ g = NoGateway)
     /\ UNCHANGED gwid

----------------------------------------------------------------------------
(* The programs.                                                             *)

(* get_known_gateway: the gateway of the connection, or the first that has   *)
(* an active entry, or none.                                                 *)
KnownPlaces == {i \in Places : Allocated(table[i]) /\ IsActive(table[i])}
KnownGateway ==
  IF state = "connected" THEN {gwid}
  ELSE {table[i].gwid : i \in {j \in KnownPlaces : j = First(KnownPlaces)}}

(* loop() of autoclient.                                                     *)
Attempt ==
  /\ program = "autoclient" /\ Running
  /\ state # "connected" /\ ~trying
  /\ \E g \in KnownGateway : Connecting(table, g)
  /\ trying' = TRUE
  /\ UNCHANGED <<table, air, alive, program>>

(* searchgw(), which every gateway answers that gets it.                     *)
Search ==
  /\ Running
  /\ program = "autoclient" => state # "connected" /\ ~trying /\ KnownPlaces = {}
  /\ UnderWay("GWINFO") < MaxAir
  /\ \E g \in alive : air' = air \cup {[type |-> "GWINFO", gwid |-> g]}
  /\ UNCHANGED <<table, connVars, alive, program>>

(* The commands of mqttclientapp.                                            *)
UserConnects ==
  /\ program = "mqttclientapp" /\ Running
  /\ \E g \in KnownGateway : Connecting(table, g)
  /\ UNCHANGED <<table, trying, air, alive, program>>

AddGateway ==
  /\ program = "mqttclientapp" /\ Running
  /\ \E g \in Gateways : table' = Added(Entry(g, TRUE, FALSE))
  /\ UNCHANGED <<connVars, air, alive, program>>

----------------------------------------------------------------------------
(* manage_connections                                                        *)

(* manage_gw_connection. The entry is marked as not active and the callbacks *)
(* are told its id, which is read through NULL when get_gateway finds none.  *)
LostContact ==
  /\ state = "connected"
  /\ \/ /\ Known(table, gwid)
        /\ table' = [table EXCEPT ![First(Matching(table, gwid))].active = FALSE]
        /\ Ended(table', gwid)
     \/ /\ ~Known(table, gwid)
        /\ state' = "crashed"
        /\ UNCHANGED <<table, gwid, pending, trying>>
  /\ UNCHANGED <<air, alive, program>>

(* The last attempt had no answer: m_fnconnected. The gateway stays active.  *)
GiveUp ==
  /\ state = "connecting"
  /\ state' = "disconnected"
  /\ pending' = FALSE
  /\ trying' = FALSE
  /\ UNCHANGED <<table, gwid, air, alive, program>>

----------------------------------------------------------------------------
(* The handlers.                                                             *)
Takes(type, g) ==
  /\ Running
  /\ [type |-> type, gwid |-> g] \in air
  /\ air' = air \ {[type |-> type, gwid |-> g]}
  /\ UNCHANGED <<alive, program>>

(* received_advertised                                                       *)
ReceiveAdvertise(g) ==
  /\ Running
  /\ g \in alive
  /\ table' = Heard(g, TRUE)
  /\ UNCHANGED <<connVars, air, alive, program>>

(* received_gwinfo. It completes the active message.                         *)
ReceiveGwinfo(g) ==
  /\ Takes("GWINFO", g)
  /\ table' = Heard(g, FALSE)
  /\ pending' = FALSE
  /\ UNCHANGED <<state, gwid, trying>>

(* received_pingresp of a known gateway.                                     *)
ReceivePingresp(g) ==
  /\ Running
  /\ g \in alive
  /\ Known(table, g)
  /\ table' = [table EXCEPT ![First(Matching(table, g))].active = TRUE,
                            ![First(Matching(table, g))].fresh = TRUE]
  /\ UNCHANGED <<connVars, air, alive, program>>

(* received_connack, of whatever gateway it comes from. Without an active    *)
(* message the attempt ends and the program is not told.                     *)
ReceiveConnack(g) ==
  /\ Takes("CONNACK", g)
  /\ \/ state # "connecting" /\ UNCHANGED <<state, trying>>
     \/ state = "connecting" /\ state' = "connected" /\ trying' = FALSE
     \/ state = "connecting" /\ ~pending /\ state' = "disconnected" /\ UNCHANGED trying
  /\ pending' = (pending /\ state # "connecting")
  /\ UNCHANGED <<table, gwid>>

(* received_disconnect, of whatever gateway it comes from. *)
ReceiveDisconnect(g) ==
  /\ Running
  /\ g \in alive
  /\ Ended(table, IdOfSender(g))
  /\ UNCHANGED <<table, air, alive, program>>

----------------------------------------------------------------------------
(* The gateways, the radio and time.                                         *)
AnswerConnect ==
  /\ state = "connecting" /\ pending
  /\ gwid \in alive
  /\ UnderWay("CONNACK") < MaxAir
  /\ air' = air \cup {[type |-> "CONNACK", gwid |-> gwid]}
  /\ UNCHANGED <<table, connVars, alive, program>>

Lose(p) ==
  /\ p \in air
  /\ air' = air \ {p}
  /\ UNCHANGED <<table, connVars, alive, program>>

GatewayStops ==
  /\ \E g \in alive : alive' = alive \ {g}
  /\ UNCHANGED <<table, connVars, air, program>>

(* The advertised duration of an entry, and a minute, have passed.           *)
Expire(i) ==
  /\ table[i].advertising
  /\ table' = [table EXCEPT ![i].fresh = FALSE]
  /\ UNCHANGED <<connVars, air, alive, program>>

Next ==
  \/ Attempt \/ Search \/ UserConnects \/ AddGateway
  \/ LostContact \/ GiveUp
  \/ \E g \in Advertisers : ReceiveAdvertise(g)
  \/ \E g \in Gateways :
       ReceiveGwinfo(g) \/ ReceivePingresp(g) \/ ReceiveConnack(g) \/ ReceiveDisconnect(g)
  \/ AnswerConnect
  \/ \E p \in Answers : Lose(p)
  \/ GatewayStops
  \/ \E i \in Places : Expire(i)

Spec == Init /\ [][Next]_vars

(* The main loop runs: attempts are made (an advertisement lasts longer than *)
(* a turn of the loop) and given up, contact with a gateway that has stopped *)
(* is lost, and its advertisement runs out. Those that run advertise,        *)
(* nothing stays under way, and of the attempts to connect to them, and of   *)
(* their answers, some get through.                                          *)
Fairness ==
  /\ SF_vars(Attempt)
  /\ WF_vars(GiveUp /\ pending)
  /\ WF_vars(LostContact /\ gwid \notin alive)
  /\ SF_vars(AnswerConnect)
  /\ \A g \in Gateways : WF_vars(Lose([type |-> "CONNACK", gwid |-> g]))
  /\ \A g \in Advertisers : WF_vars(ReceiveAdvertise(g))
  /\ \A g \in Gateways : SF_vars(ReceiveConnack(g) /\ g \in alive /\ state' = "connected")
  /\ \A i \in Places : WF_vars(Expire(i) /\ table[i].gwid \notin alive)

FairSpec == Spec /\ Fairness
----------------------------------------------------------------------------
Entries ==
  [gwid : Gateways, permanent : BOOLEAN, advertising : BOOLEAN, active : BOOLEAN,
   fresh : BOOLEAN]

TypeOK ==
  /\ table \in [Places -> Entries \cup {Free}]
  /\ state \in {"disconnected", "connecting", "connected", "crashed"}
  /\ gwid \in Gateways \cup {NoGateway}
  /\ state # "disconnected" => gwid \in Gateways
  /\ pending \in BOOLEAN /\ trying \in BOOLEAN
  /\ air \subseteq Answers
  /\ alive \subseteq Gateways
  /\ program \in Programs

(* Of the entries of one gateway at most one was learnt from packets: what   *)
(* arrives is never kept twice, though most searches pass over entries that  *)
(* are not active and the user may add a gateway that is there.              *)
HeardOnce ==
  \A i, j \in Places :
    (/\ Allocated(table[i]) /\ ~table[i].permanent
     /\ ~table[j].permanent /\ table[i].gwid = table[j].gwid) => i = j

(* A gateway the user added stays, however often contact with it is lost and *)
(* others are heard.                                                         *)
PermanentKept ==
  [][\A i \in Places :
       table[i].permanent => table'[i].permanent /\ table'[i].gwid = table[i].gwid]_vars

(* The gateway of a connection, also of one in progress, has an active entry *)
(* if it does not advertise: contact that is lost is told to the program     *)
(* (manage_gw_connection reads the entry without asking whether there is     *)
(* one). The advertisement of one that does may run out before contact is    *)
(* lost, which ends the program.                                             *)
ConnectedKnown ==
  (state # "disconnected" /\ gwid \notin Advertisers) => Known(table, gwid)

(* autoclient connects to a gateway that runs, again and again if need be,   *)
(* when all entries of gateways that have stopped can run out (those of a    *)
(* gateway known from a GWINFO only cannot: it is tried for ever), and       *)
(* GWINFO has not completed the CONNECT, of which the program is not told.   *)
CanRunOut ==
  \A i \in Places :
    Allocated(table[i]) => table[i].gwid \in alive \/ table[i].advertising

Hung == trying /\ ~pending /\ state # "connected"

Reached ==
  (/\ program = "autoclient"
   /\ [](Advertisers \cap alive # {})
   /\ <>[]CanRunOut)
    => []<>(Hung \/ state = "crashed" \/ (state = "connected" /\ gwid \in alive))
====
