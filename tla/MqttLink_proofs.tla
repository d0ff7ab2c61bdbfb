--------------------------- MODULE MqttLink_proofs ----------------------------
(***************************************************************************)
(* For any number of relays, retries and any intervals: the types of the   *)
(* MQTT link, with the retry count within its table of delays, and that    *)
(* the broker holds what the relays do and what discovery has passed.      *)
(***************************************************************************)
EXTENDS MqttLink, TLAPS

(* What the types rest on: a connection exists exactly while the client is *)
(* not disconnected, only then is there something to read, and an attempt  *)
(* is only made, and so only fails, below the limit of the retries.        *)
LinkFollowsState ==
    /\ state = "Disconnected" <=> link = "None"
    /\ link = "None" => inbox = <<>>
    /\ link # "None" => retryCount < MaxRetries

IInv == TypeOK /\ LinkFollowsState

LEMMA ConstantTypes ==
    /\ RelayCount \in Nat /\ MaxRetries \in Nat
    /\ EnabledRelays \subseteq Relays
    /\ Relays \subseteq Nat
BY MqttAssumption DEF Relays

(* A publication leaves the age of the last packet and the broker's memory *)
(* in their types.                                                         *)
LEMMA PublishTyped ==
    ASSUME TypeOK, NEW R, PublishRelays(R)
    PROVE  sendAge' \in Nat /\ retained' \in [Relays -> {"Unknown", "ON", "OFF"}]
<1>1. sendAge \in Nat /\ retained \in [Relays -> {"Unknown", "ON", "OFF"}]
  BY DEF TypeOK
<1>2. \A on : Payload(on) \in {"ON", "OFF"}
  BY DEF Payload
<1> QED
  BY <1>1, <1>2 DEF PublishRelays, Written

(* A command leaves the relay states in their type.                        *)
LEMMA CommandTyped ==
    ASSUME TypeOK, NEW r, NEW what, HandleRelayCommand(r, what)
    PROVE  relayStatus' \in [Relays -> BOOLEAN]
<1>1. relayStatus \in [Relays -> BOOLEAN]
  BY DEF TypeOK
<1> DEFINE v == what = "ON" \/ (what = "TOGGLE" /\ ~relayStatus[r])
<1>2. v \in BOOLEAN
  BY Zenon
<1>3. Commanded(r, what) = [relayStatus EXCEPT ![r] = v]
  BY DEF Commanded
<1>4. [relayStatus EXCEPT ![r] = v] \in [Relays -> BOOLEAN]
  <2> HIDE DEF v
  <2> QED
    BY <1>1, <1>2
<1> QED
  BY <1>1, <1>3, <1>4 DEF HandleRelayCommand

LEMMA DropKeeps ==
    ASSUME IInv, Drop, link # "None",
           rx' \in {"Empty", "Part", "Stale", "Blocked"},
           phase' \in {"Read", "KeepAlive", "Retry", "Relays", "Rest"}
    PROVE  IInv'
<1>1. retryCount' \in 0 .. MaxRetries
  BY ConstantTypes DEF IInv, TypeOK, LinkFollowsState, Drop
<1>2. inbox' \in Seq(Packets)
  BY DEF Drop
<1> QED
  BY <1>1, <1>2 DEF IInv, TypeOK, LinkFollowsState, Drop, brokerVars

(* Processing one packet keeps the invariant.                              *)
LEMMA ProcessPacketKeeps ==
    ASSUME IInv, NEW p, ProcessPacket(p), inbox # <<>>
    PROVE  IInv'
<1> USE ConstantTypes
<1>1. link # "None" /\ state # "Disconnected" /\ retryCount < MaxRetries
  BY DEF IInv, LinkFollowsState
<1>2. inbox \in Seq(Packets) /\ Tail(inbox) \in Seq(Packets)
  BY DEF IInv, TypeOK
<1>3. CASE p.type = "Refused" /\ Drop /\ rx' = "Empty" /\ phase' = "Retry"
  BY <1>1, <1>3, DropKeeps
<1>4. ASSUME inbox' = Tail(inbox), rx' = "Empty", phase' = "KeepAlive",
             ProcessConnAck
      PROVE  IInv'
  <2>1. sendAge' \in Nat /\ retained' \in [Relays -> {"Unknown", "ON", "OFF"}]
    BY <1>4, PublishTyped DEF IInv, ProcessConnAck
  <2>2. 0 < MaxRetries
    BY <1>1 DEF IInv, TypeOK
  <2> QED
    BY <1>1, <1>2, <1>4, <2>1, <2>2
    DEF IInv, TypeOK, LinkFollowsState, ProcessConnAck, DiscoveryStart
<1>5. ASSUME inbox' = Tail(inbox), rx' = "Empty", phase' = "KeepAlive",
             HandleRelayCommand(p.relay, p.payload)
      PROVE  IInv'
  <2>1. sendAge' \in Nat /\ retained' \in [Relays -> {"Unknown", "ON", "OFF"}]
    BY <1>5, PublishTyped DEF IInv, HandleRelayCommand
  <2>2. relayStatus' \in [Relays -> BOOLEAN]
    BY <1>5, CommandTyped DEF IInv
  <2> QED
    BY <1>1, <1>2, <1>5, <2>1, <2>2
    DEF IInv, TypeOK, LinkFollowsState, HandleRelayCommand, controllerVars
<1>6. ASSUME inbox' = Tail(inbox), rx' = "Empty", phase' = "KeepAlive",
             ProcessPingResp
      PROVE  IInv'
  BY <1>1, <1>2, <1>6
  DEF IInv, TypeOK, LinkFollowsState, ProcessPingResp, PingAnswered, controllerVars, brokerVars
<1> QED
  BY <1>3, <1>4, <1>5, <1>6 DEF ProcessPacket, ProcessPublish

LEMMA ReadKeeps == IInv /\ Read => IInv'
<1> SUFFICES ASSUME IInv, Read PROVE IInv'
  OBVIOUS
<1> USE ConstantTypes
<1>1. inbox \in Seq(Packets) /\ (inbox # <<>> => Tail(inbox) \in Seq(Packets))
  BY DEF IInv, TypeOK
<1>2. inbox # <<>> => link # "None"
  BY DEF IInv, LinkFollowsState
<1>3. CASE (link = "Closed" \/ ConnectTimedOut) /\ Drop /\ KeepPart /\ phase' = "Retry"
  <2>1. link # "None"
    BY <1>3 DEF ConnectTimedOut, IInv, LinkFollowsState
  <2>2. rx' \in {"Empty", "Part", "Stale", "Blocked"}
    BY <1>3 DEF KeepPart, IInv, TypeOK
  <2> QED
    BY <1>3, <2>1, <2>2, DropKeeps
<1>4. CASE inbox # <<>> /\ rx # "Blocked" /\ ReadPacket
  <2>1. CASE ProcessPacket(Head(inbox))
    BY <1>4, <2>1, ProcessPacketKeeps
  <2>2. CASE rx = "Stale" /\ Drop /\ rx' = "Empty" /\ phase' = "Retry"
    BY <1>2, <1>4, <2>2, DropKeeps
  <2>3. ASSUME rx' \in {"Part", "Blocked", "Empty", "Stale"}, phase' = "Retry",
               inbox' = inbox \/ inbox' = Tail(inbox), Unprocessed
        PROVE  IInv'
    BY <1>1, <1>2, <1>4, <2>3
    DEF IInv, TypeOK, LinkFollowsState, Unprocessed, controllerVars, brokerVars
  <2> QED
    BY <1>4, <2>1, <2>2, <2>3 DEF ReadPacket
<1>5. ASSUME phase' \in {"KeepAlive", "Retry"}, UNCHANGED <<inbox, rx>>, Unprocessed
      PROVE  IInv'
  BY <1>5 DEF IInv, TypeOK, LinkFollowsState, Unprocessed, controllerVars, brokerVars
<1> QED
  BY <1>3, <1>4, <1>5 DEF Read

LEMMA KeepAliveKeeps == IInv /\ KeepAlive => IInv'
<1> SUFFICES ASSUME IInv, KeepAlive PROVE IInv'
  OBVIOUS
<1> USE ConstantTypes
<1>1. CASE state = "Connected" /\ Silent /\ Drop /\ KeepPart
  <2>1. link # "None"
    BY <1>1 DEF IInv, LinkFollowsState
  <2>2. rx' \in {"Empty", "Part", "Stale", "Blocked"}
    BY <1>1 DEF KeepPart, IInv, TypeOK
  <2> QED
    BY <1>1, <2>1, <2>2, DropKeeps DEF KeepAlive
<1>3. CASE UNCHANGED <<inbox, rx>> /\ Unprocessed
  BY <1>3 DEF KeepAlive, IInv, TypeOK, LinkFollowsState, Unprocessed, controllerVars, brokerVars
<1>2. CASE state = "Connected" /\ ~Silent /\ sendAge > KeepAliveInterval
  <2>1. Plain("PingResp") \in Packets
    BY DEF Packets
  <2>2. ASSUME Written,
               inbox' = IF link = "Up" THEN Append(inbox, Plain("PingResp")) ELSE inbox,
               UNCHANGED <<state, link, rx, receiveAge, controllerVars, reachable,
                           relayStatus, discoveryIndex, brokerVars>>
        PROVE  IInv'
    <3>1. inbox' \in Seq(Packets)
      BY <2>1, <2>2 DEF IInv, TypeOK
    <3> QED
      BY <1>2, <2>2, <3>1
      DEF KeepAlive, Written, IInv, TypeOK, LinkFollowsState, controllerVars, brokerVars
  <2> QED
    BY <1>1, <1>3, <2>2, <1>2 DEF KeepAlive
<1> QED
  BY <1>1, <1>2, <1>3 DEF KeepAlive

LEMMA RetryKeeps ==
    ASSUME IInv,
           NoRetry \/ ConnectFails \/ \E answer \in Answers : Connect(answer)
    PROVE  IInv'
<1> USE ConstantTypes
<1>1. CASE NoRetry
  BY <1>1 DEF NoRetry, IInv, TypeOK, LinkFollowsState, clientVars, controllerVars, brokerVars
<1>2. CASE ConnectFails
  BY <1>2 DEF ConnectFails, IInv, TypeOK, LinkFollowsState, clientVars, brokerVars
<1>3. ASSUME NEW answer \in Answers, Connect(answer)
      PROVE  IInv'
  <2>1. Plain("Accepted") \in Packets /\ Plain("Refused") \in Packets
    BY DEF Packets
  <2>2. answer \in Seq(Packets)
    <3>1. \A p \in Packets : <<p>> \in Seq(Packets)
      OBVIOUS
    <3>2. <<>> \in Seq(Packets)
      OBVIOUS
    <3> QED
      BY <2>1, <3>1, <3>2, Zenon DEF Answers
  <2>3. retryCount < MaxRetries
    BY <1>3 DEF Connect, RetryDue, ShouldRetry
  <2> QED
    BY <1>3, <2>2, <2>3 DEF Connect, IInv, TypeOK, LinkFollowsState, brokerVars
<1> QED
  BY <1>1, <1>2, <1>3

LEMMA RelaysKeeps == IInv /\ PublishDiscovery => IInv'
<1> SUFFICES ASSUME IInv, PublishDiscovery PROVE IInv'
  OBVIOUS
<1> USE ConstantTypes
<1>1. /\ discoveryIndex' \in 0 .. RelayCount
      /\ sendAge' \in Nat
      /\ discovered' \subseteq Relays
  <2>1. discoveryIndex < RelayCount => discoveryIndex \in Relays
    BY DEF Relays, IInv, TypeOK
  <2>2. discoveryIndex' \in 0 .. RelayCount
    BY <2>1 DEF PublishDiscovery, IInv, TypeOK
  <2>3. sendAge' \in Nat
    BY DEF PublishDiscovery, Written, IInv, TypeOK
  <2>4. discovered' \subseteq Relays
    BY <2>1 DEF PublishDiscovery, IInv, TypeOK
  <2> QED
    BY <2>2, <2>3, <2>4
<1> QED
  BY <1>1 DEF PublishDiscovery, IInv, TypeOK, LinkFollowsState, controllerVars

LEMMA RestKeeps ==
    ASSUME IInv,
           \/ \E r \in EnabledRelays : SwitchRelay(r)
           \/ PublishSensors
           \/ \E p \in Packets : BrokerSends(p)
           \/ LoseLink \/ ReachableChanges \/ LoopAgain \/ Tick
    PROVE  IInv'
<1> USE ConstantTypes
<1>1. ASSUME NEW r \in EnabledRelays, SwitchRelay(r) PROVE IInv'
  <2>1. sendAge' \in Nat /\ retained' \in [Relays -> {"Unknown", "ON", "OFF"}]
    BY <1>1, PublishTyped DEF IInv, SwitchRelay
  <2>2. relayStatus' \in [Relays -> BOOLEAN]
    <3>1. relayStatus \in [Relays -> BOOLEAN] /\ (~relayStatus[r]) \in BOOLEAN
      BY Zenon DEF IInv, TypeOK
    <3>2. relayStatus' = [relayStatus EXCEPT ![r] = ~relayStatus[r]]
      BY <1>1 DEF SwitchRelay
    <3> QED
      BY <3>1, <3>2
  <2> QED
    BY <1>1, <2>1, <2>2 DEF SwitchRelay, IInv, TypeOK, LinkFollowsState, controllerVars
<1>2. CASE PublishSensors
  BY <1>2 DEF PublishSensors, Written, IInv, TypeOK, LinkFollowsState, controllerVars, brokerVars
<1>3. ASSUME NEW p \in Packets, BrokerSends(p) PROVE IInv'
  BY <1>3 DEF BrokerSends, IInv, TypeOK, LinkFollowsState, controllerVars, brokerVars
<1>4. CASE LoseLink
  <2>1. inbox' \in Seq(Packets)
    <3>1. <<>> \in Seq(Packets)
      OBVIOUS
    <3> QED
      BY <1>4, <3>1 DEF LoseLink, IInv, TypeOK
  <2>2. retained' \in [Relays -> {"Unknown", "ON", "OFF"}] /\ discovered' \subseteq Relays
    BY <1>4 DEF LoseLink, brokerVars, IInv, TypeOK
  <2> QED
    BY <1>4, <2>1, <2>2 DEF LoseLink, IInv, TypeOK, LinkFollowsState, controllerVars
<1>5. CASE ReachableChanges
  <2>1. reachable' \in BOOLEAN
    BY <1>5, Zenon DEF ReachableChanges
  <2> QED
    BY <1>5, <2>1
    DEF ReachableChanges, IInv, TypeOK, LinkFollowsState, clientVars, controllerVars, brokerVars
<1>6. CASE LoopAgain
  BY <1>6 DEF LoopAgain, IInv, TypeOK, LinkFollowsState, clientVars, controllerVars, brokerVars
<1>7. CASE Tick
  <2>1. \A age \in Nat : \A last : Aged(age, last) \in Nat
    BY DEF Aged
  <2> QED
    BY <1>7, <2>1 DEF Tick, IInv, TypeOK, LinkFollowsState, brokerVars
<1> QED
  BY <1>1, <1>2, <1>3, <1>4, <1>5, <1>6, <1>7

LEMMA Invariance == Spec => []IInv
<1>1. Init => IInv
  <2> SUFFICES ASSUME Init PROVE IInv
    OBVIOUS
  <2>1. <<>> \in Seq(Packets)
    OBVIOUS
  <2>2. reachable \in BOOLEAN /\ relayStatus \in [Relays -> BOOLEAN]
    BY Zenon DEF Init
  <2> QED
    BY ConstantTypes, <2>1, <2>2 DEF Init, IInv, TypeOK, LinkFollowsState
<1>2. IInv /\ [Next]_mqttVars => IInv'
  <2> SUFFICES ASSUME IInv, [Next]_mqttVars PROVE IInv'
    OBVIOUS
  <2>1. CASE UNCHANGED mqttVars
    BY <2>1
    DEF mqttVars, clientVars, controllerVars, brokerVars, IInv, TypeOK, LinkFollowsState
  <2> QED
    BY <2>1, ReadKeeps, KeepAliveKeeps, RetryKeeps, RelaysKeeps, RestKeeps DEF Next
<1> QED
  BY <1>1, <1>2, PTL DEF Spec

(* Every variable keeps its type; above all the retry count stays within   *)
(* the table of delays, so that getRetryDelay() never reads behind it.     *)
THEOREM TypeCorrect == Spec => []TypeOK
BY Invariance, PTL DEF IInv

-----------------------------------------------------------------------------
(* A step that ends with an unchanged connection and publishes every       *)
(* relay it switches keeps the broker in agreement.                        *)
LEMMA PublishedAgree ==
    ASSUME IInv, StatesAgree, NEW R,
           UNCHANGED <<state, link>>, PublishRelays(R),
           \A r \in EnabledRelays \ R : relayStatus'[r] = relayStatus[r]
    PROVE  StatesAgree'
<1> SUFFICES ASSUME state = "Connected", link = "Up", NEW r \in EnabledRelays
             PROVE  retained'[r] = Payload(relayStatus'[r])
  BY DEF StatesAgree, Payload
<1>1. retained[r] = Payload(relayStatus[r]) /\ r \in Relays
  BY ConstantTypes DEF StatesAgree
<1>2. CASE R = {}
  BY <1>1, <1>2 DEF PublishRelays, Payload
<1>3. CASE R # {}
  <2>1. retained' = [q \in Relays |-> IF q \in R THEN Payload(relayStatus'[q]) ELSE retained[q]]
    BY <1>3 DEF PublishRelays
  <2> QED
    BY <1>1, <2>1 DEF Payload
<1> QED
  BY <1>2, <1>3

(* So is the broker when a new connection is told of every relay.          *)
LEMMA ConnectedAgree ==
    ASSUME IInv, ProcessConnAck
    PROVE  StatesAgree'
<1> SUFFICES ASSUME link = "Up", NEW r \in EnabledRelays
             PROVE  retained'[r] = Payload(relayStatus'[r])
  BY DEF StatesAgree, ProcessConnAck, Payload
<1>1. state' = "Connected" /\ EnabledRelays # {} /\ r \in Relays
  BY ConstantTypes DEF ProcessConnAck
<1>2. retained' = [q \in Relays |-> IF q \in EnabledRelays THEN Payload(relayStatus'[q])
                                                           ELSE retained[q]]
  BY <1>1 DEF ProcessConnAck, PublishRelays, ToldOnConnect
<1> QED
  BY <1>1, <1>2

LEMMA AgreementKept == IInv /\ StatesAgree /\ [Next]_mqttVars => StatesAgree'
<1> SUFFICES ASSUME IInv, StatesAgree, [Next]_mqttVars PROVE StatesAgree'
  OBVIOUS
\* Nothing it is about changes, or there is no working connection afterwards.
<1>1. ASSUME UNCHANGED <<state, link, relayStatus, retained>> PROVE StatesAgree'
  BY <1>1 DEF StatesAgree, Payload
<1>2. ASSUME state' # "Connected" \/ link' # "Up" PROVE StatesAgree'
  BY <1>2 DEF StatesAgree
<1>3. ASSUME Drop PROVE StatesAgree'
  BY <1>2, <1>3 DEF Drop
<1>4. ASSUME Unprocessed PROVE StatesAgree'
  BY <1>1, <1>4 DEF Unprocessed, brokerVars
<1>5. ASSUME NEW p, ProcessPacket(p) PROVE StatesAgree'
  <2>1. ASSUME HandleRelayCommand(p.relay, p.payload) PROVE StatesAgree'
    BY <2>1, PublishedAgree DEF HandleRelayCommand
  <2>2. ASSUME ProcessPingResp PROVE StatesAgree'
    BY <1>1, <2>2 DEF ProcessPingResp, brokerVars
  <2> QED
    BY <1>3, <1>5, <2>1, <2>2, ConnectedAgree DEF ProcessPacket, ProcessPublish
<1>6. CASE Read
  BY <1>3, <1>4, <1>5, <1>6 DEF Read, ReadPacket
<1>7. CASE KeepAlive
  BY <1>1, <1>3, <1>4, <1>7 DEF KeepAlive, brokerVars
<1>8. ASSUME NEW answer \in Answers, Connect(answer) PROVE StatesAgree'
  BY <1>2, <1>8 DEF Connect
<1>9. CASE NoRetry \/ ConnectFails \/ PublishDiscovery
  BY <1>1, <1>9 DEF NoRetry, ConnectFails, PublishDiscovery, clientVars, brokerVars
<1>10. ASSUME NEW r \in EnabledRelays, SwitchRelay(r) PROVE StatesAgree'
  <2>1. \A q \in EnabledRelays \ {r} : relayStatus'[q] = relayStatus[q]
    BY <1>10, ConstantTypes DEF SwitchRelay, IInv, TypeOK
  <2> QED
    BY <1>10, <2>1, PublishedAgree DEF SwitchRelay
<1>11. CASE PublishSensors \/ (\E p \in Packets : BrokerSends(p)) \/ ReachableChanges
           \/ LoopAgain \/ Tick
  BY <1>1, <1>11
  DEF PublishSensors, BrokerSends, ReachableChanges, LoopAgain, Tick, clientVars, brokerVars
<1>12. CASE LoseLink
  BY <1>2, <1>12 DEF LoseLink
<1>13. CASE UNCHANGED mqttVars
  BY <1>1, <1>13 DEF mqttVars, clientVars, brokerVars
<1> QED
  BY <1>6, <1>7, <1>8, <1>9, <1>10, <1>11, <1>12, <1>13 DEF Next

(* On a working connection the broker holds the state of every relay that  *)
(* has a pin, whatever happened to the connection, the broker and the      *)
(* relays before.                                                          *)
THEOREM BrokerAlwaysAgrees == Spec => []StatesAgree
<1>1. Init => StatesAgree
  BY DEF Init, StatesAgree
<1> QED
  BY <1>1, AgreementKept, Invariance, PTL DEF Spec

-----------------------------------------------------------------------------
LEMMA AnnouncementKept == IInv /\ AnnouncedInFull /\ [Next]_mqttVars => AnnouncedInFull'
<1> SUFFICES ASSUME IInv, AnnouncedInFull, [Next]_mqttVars PROVE AnnouncedInFull'
  OBVIOUS
<1>1. ASSUME UNCHANGED <<state, link, discoveryIndex, discovered>> PROVE AnnouncedInFull'
  BY <1>1 DEF AnnouncedInFull
<1>2. ASSUME state' # "Connected" \/ link' # "Up" PROVE AnnouncedInFull'
  BY <1>2 DEF AnnouncedInFull
<1>3. ASSUME Drop PROVE AnnouncedInFull'
  BY <1>2, <1>3 DEF Drop
<1>4. ASSUME Unprocessed PROVE AnnouncedInFull'
  BY <1>1, <1>4 DEF Unprocessed, brokerVars
<1>5. ASSUME NEW p, ProcessPacket(p) PROVE AnnouncedInFull'
  <2>1. ASSUME HandleRelayCommand(p.relay, p.payload) PROVE AnnouncedInFull'
    BY <1>1, <2>1 DEF HandleRelayCommand
  <2>2. ASSUME ProcessPingResp PROVE AnnouncedInFull'
    BY <1>1, <2>2 DEF ProcessPingResp, brokerVars
  <2>3. ASSUME ProcessConnAck PROVE AnnouncedInFull'
    BY <2>3, ConstantTypes DEF ProcessConnAck, DiscoveryStart, AnnouncedInFull, Relays
  <2> QED
    BY <1>3, <1>5, <2>1, <2>2, <2>3 DEF ProcessPacket, ProcessPublish
<1>6. CASE Read
  BY <1>3, <1>4, <1>5, <1>6 DEF Read, ReadPacket
<1>7. CASE KeepAlive
  BY <1>1, <1>3, <1>4, <1>7 DEF KeepAlive, brokerVars
<1>8. ASSUME NEW answer \in Answers, Connect(answer) PROVE AnnouncedInFull'
  BY <1>2, <1>8 DEF Connect
<1>9. CASE NoRetry \/ ConnectFails
  BY <1>1, <1>9 DEF NoRetry, ConnectFails, clientVars, brokerVars
<1>10. CASE PublishDiscovery
  <2> SUFFICES ASSUME state = "Connected", link = "Up",
                      NEW r \in EnabledRelays, r < discoveryIndex'
               PROVE  r \in discovered'
    BY <1>10 DEF PublishDiscovery, AnnouncedInFull
  <2>1. r < discoveryIndex => r \in discovered
    BY DEF AnnouncedInFull
  <2>2. r \in Nat /\ discoveryIndex \in Nat
    BY ConstantTypes DEF IInv, TypeOK
  <2> QED
    BY <1>10, <2>1, <2>2 DEF PublishDiscovery
<1>11. CASE (\E r \in EnabledRelays : SwitchRelay(r)) \/ PublishSensors
           \/ (\E p \in Packets : BrokerSends(p)) \/ ReachableChanges \/ LoopAgain \/ Tick
  BY <1>1, <1>11
  DEF SwitchRelay, PublishSensors, BrokerSends, ReachableChanges, LoopAgain, Tick,
      clientVars, brokerVars
<1>12. CASE LoseLink
  BY <1>2, <1>12 DEF LoseLink
<1>13. CASE UNCHANGED mqttVars
  BY <1>1, <1>13 DEF mqttVars, clientVars, brokerVars
<1> QED
  BY <1>6, <1>7, <1>8, <1>9, <1>10, <1>11, <1>12, <1>13 DEF Next

(* Discovery leaves no relay out, however often a lost connection cuts it  *)
(* short.                                                                  *)
THEOREM DiscoveryLeavesNoneOut == Spec => []AnnouncedInFull
<1>1. Init => AnnouncedInFull
  BY DEF Init, AnnouncedInFull
<1> QED
  BY <1>1, AnnouncementKept, Invariance, PTL DEF Spec
=============================================================================
