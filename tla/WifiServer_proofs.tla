-------------------------- MODULE WifiServer_proofs --------------------------
(***************************************************************************)
(* For any number of client slots and any intervals: the types of the WiFi *)
(* server, that the HTTP server runs exactly while the device is connected *)
(* and serves clients only then, and that persistent connections keep to   *)
(* their quota.                                                            *)
(***************************************************************************)
EXTENDS WifiServer, FiniteSetTheorems, TLAPS

(* The ages at which counting stops are natural numbers.                   *)
LEMMA AgesAreNatural ==
    LastAge \in Nat /\ LastAttemptAge \in Nat /\ LastStateAge \in Nat
BY WifiAssumption DEF LastAge, LastAttemptAge, LastStateAge, Larger

(* A clock that is capped stays in its range.                              *)
LEMMA AgedInRange ==
    ASSUME NEW last \in Nat, NEW age \in 0 .. last
    PROVE  Aged(age, last) \in 0 .. last
BY DEF Aged

(* The failure count wraps within its range.                               *)
LEMMA FailuresInRange ==
    ASSUME NEW n \in Nat
    PROVE  (n + 1) % FailureRange \in 0 .. FailureRange - 1
BY WifiAssumption

LEMMA InitTyped == Init => TypeOK
<1> SUFFICES ASSUME Init PROVE TypeOK
  OBVIOUS
<1> USE WifiAssumption, AgesAreNatural
<1>1. mode \in {"Off", "AccessPoint", "Client"}
  BY DEF Init
<1>2. /\ wifiServer \in {"Absent", "NotBegun", "Begun"}
      /\ connectionState \in ConnectionStates
      /\ serverActive \in BOOLEAN
      /\ radio \in {"Off", "Joining", "Joined"}
  BY <1>1 DEF Init, Absent, AccessPointUp, ClientBegun, ConnectionStates
<1>3. /\ failures \in 0 .. FailureRange - 1
      /\ attemptAge \in 0 .. LastAttemptAge /\ stateAge \in 0 .. LastStateAge
      /\ cursor \in 0 .. MaxConcurrentClients + 1
  BY DEF Init
<1>4. slots \in [Clients -> Slot] /\ input \in [Clients -> Inputs]
  BY DEF Init, IdleSlot, SlotIn, Slot, Inputs
<1> QED
  BY <1>1, <1>2, <1>3, <1>4 DEF TypeOK

(* A connection step keeps the types of the connection.                    *)
ConnectionTyped ==
    /\ mode \in {"Off", "AccessPoint", "Client"}
    /\ wifiServer \in {"Absent", "NotBegun", "Begun"}
    /\ connectionState \in ConnectionStates
    /\ failures \in 0 .. FailureRange - 1
    /\ attemptAge \in 0 .. LastAttemptAge /\ stateAge \in 0 .. LastStateAge
    /\ serverActive \in BOOLEAN
    /\ radio \in {"Off", "Joining", "Joined"}

LEMMA UpdateTyped == TypeOK /\ Update => ConnectionTyped'
<1> SUFFICES ASSUME TypeOK, Update PROVE ConnectionTyped'
  OBVIOUS
<1> USE WifiAssumption, AgesAreNatural
<1>1. CASE Check
  <2>1. (failures + 1) % FailureRange \in 0 .. FailureRange - 1
    BY FailuresInRange DEF TypeOK
  <2>2. 0 \in 0 .. FailureRange - 1 /\ 0 \in 0 .. LastAttemptAge
    OBVIOUS
  <2> QED
    BY <1>1, <2>1, <2>2 DEF Check, FailuresCounted, Setup, TypeOK, ConnectionTyped, ConnectionStates
<1>2. CASE LoseConnection
  BY <1>2 DEF LoseConnection, Setup, TypeOK, ConnectionTyped, ConnectionStates
<1>3. CASE Retry
  BY <1>3 DEF Retry, Setup, TypeOK, ConnectionTyped, ConnectionStates
<1>4. CASE Restart
  BY <1>4 DEF Restart, Setup, TypeOK, ConnectionTyped, ConnectionStates
<1>5. CASE NothingDue
  BY <1>5 DEF NothingDue, connectionVars, TypeOK, ConnectionTyped
<1> QED
  BY <1>1, <1>2, <1>3, <1>4, <1>5 DEF Update, updateClientConnection

(* The handling of one slot keeps the types of slots and sockets.          *)
LEMMA HandleTyped ==
    ASSUME TypeOK, NEW i \in Clients, HandleClient(i)
    PROVE  slots' \in [Clients -> Slot] /\ input' \in [Clients -> Inputs]
<1> USE WifiAssumption, AgesAreNatural
<1> slots \in [Clients -> Slot] /\ input \in [Clients -> Inputs]
  BY DEF TypeOK
<1>1. IdleSlot \in Slot /\ "Nothing" \in Inputs
  BY DEF IdleSlot, SlotIn, Slot, Inputs
<1>2. ASSUME Cleanup(i)
      PROVE  slots' \in [Clients -> Slot] /\ input' \in [Clients -> Inputs]
  BY <1>1, <1>2 DEF Cleanup, Put
<1>3. CASE ReadRequest(i)
  <2>1. CASE ~ReadTimedOut(i) /\ input[i] \in {"Request", "Keep"}
    <3>1. SlotIn("ProcessingRequest", slots[i].isPersistent, input[i]) \in Slot
      BY <2>1 DEF SlotIn, Slot
    <3> QED
      BY <1>1, <1>2, <1>3, <2>1, <3>1 DEF ReadRequest, Put, Consume
  <2>2. CASE ~(~ReadTimedOut(i) /\ input[i] \in {"Request", "Keep"})
    BY <1>1, <1>2, <1>3, <2>2 DEF ReadRequest
  <2> QED
    BY <2>1, <2>2
<1>4. CASE ProcessRequest(i)
  <2>1. SlotIn("KeepAlive", TRUE, "Nothing") \in Slot
    BY DEF SlotIn, Slot
  <2> QED
    BY <1>2, <1>4, <2>1 DEF ProcessRequest, Put
<1>5. CASE KeepClient(i)
  <2>1. SlotIn("ReadingRequest", slots[i].isPersistent, "Nothing") \in Slot
    BY DEF SlotIn, Slot
  <2> QED
    BY <1>2, <1>5, <2>1 DEF KeepClient, Put
<1> QED
  BY <1>3, <1>4, <1>5 DEF HandleClient

LEMMA NextTyped == TypeOK /\ [Next]_wifiVars => TypeOK'
<1> SUFFICES ASSUME TypeOK, [Next]_wifiVars PROVE TypeOK'
  OBVIOUS
<1> USE WifiAssumption, AgesAreNatural
<1>1. CASE Update
  <2>1. ConnectionTyped'
    BY <1>1, UpdateTyped
  <2>2. cursor' \in 0 .. MaxConcurrentClients + 1
    BY <1>1 DEF Update
  <2> QED
    BY <1>1, <2>1, <2>2 DEF Update, ConnectionTyped, TypeOK
<1>2. ASSUME NEW i \in Clients, HandleClient(i) PROVE TypeOK'
  <2>1. slots' \in [Clients -> Slot] /\ input' \in [Clients -> Inputs]
    BY <1>2, HandleTyped
  <2>2. cursor' \in 0 .. MaxConcurrentClients + 1
    BY <1>2 DEF HandleClient, Clients
  <2> QED
    BY <1>2, <2>1, <2>2 DEF HandleClient, connectionVars, TypeOK
<1>3. CASE AcceptNewClient
  <2>1. SlotIn("ReadingRequest", FALSE, "Nothing") \in Slot
    BY DEF SlotIn, Slot
  <2>2. slots' \in [Clients -> Slot]
    BY <1>3, <2>1 DEF AcceptNewClient, Put, Free, TypeOK
  <2> QED
    BY <1>3, <2>2 DEF AcceptNewClient, connectionVars, TypeOK
<1>4. ASSUME NEW i \in Clients, NEW what \in Inputs, ClientSends(i, what) PROVE TypeOK'
  BY <1>4 DEF ClientSends, connectionVars, TypeOK
<1>5. CASE RadioJoins \/ RadioLost
  BY <1>5 DEF RadioJoins, RadioLost, connectionVars, TypeOK
<1>6. CASE Tick
  <2>1. attemptAge' \in 0 .. LastAttemptAge /\ stateAge' \in 0 .. LastStateAge
    BY <1>6, AgedInRange DEF Tick, TypeOK
  <2>2. ASSUME NEW i \in Clients
        PROVE  [slots[i] EXCEPT !.age = Aged(@, LastAge)] \in Slot
    <3>1. slots[i] \in Slot
      BY DEF TypeOK
    <3>2. Aged(slots[i].age, LastAge) \in 0 .. LastAge
      BY <3>1, AgedInRange DEF Slot
    <3> QED
      BY <3>1, <3>2 DEF Slot
  <2>3. slots' \in [Clients -> Slot]
    BY <1>6, <2>2 DEF Tick, TypeOK
  <2> QED
    BY <1>6, <2>1, <2>3 DEF Tick, TypeOK
<1>7. CASE setWifiEnabled
  BY <1>7 DEF setWifiEnabled, TypeOK
<1>8. CASE UNCHANGED wifiVars
  BY <1>8 DEF wifiVars, connectionVars, TypeOK
<1> QED
  BY <1>1, <1>2, <1>3, <1>4, <1>5, <1>6, <1>7, <1>8 DEF Next

(* Every variable keeps its type, whatever the radio and the clients do.   *)
THEOREM TypeCorrect == Spec => []TypeOK
BY InitTyped, NextTyped, PTL DEF Spec

-----------------------------------------------------------------------------
(* The HTTP server runs exactly while a server that was begun is connected:*)
(* each of the connection's transitions keeps the two together.            *)
LEMMA ServerAlwaysConnected == Spec => []ServerIsConnected
<1>1. Init => ServerIsConnected
  BY WifiAssumption
     DEF Init, Absent, AccessPointUp, ClientBegun, ServerIsConnected
<1>2. TypeOK /\ ServerIsConnected /\ [Next]_wifiVars => ServerIsConnected'
  <2> SUFFICES ASSUME TypeOK, ServerIsConnected, [Next]_wifiVars
               PROVE  ServerIsConnected'
    OBVIOUS
  <2> USE DEF ServerIsConnected
  <2>1. CASE Update
    <3>1. CASE Check
      BY <2>1, <3>1 DEF Update, Check, Setup
    <3>2. CASE LoseConnection \/ Retry \/ Restart
      BY <2>1, <3>2 DEF Update, LoseConnection, Retry, Restart, Setup
    <3>3. CASE NothingDue
      BY <3>3 DEF NothingDue, connectionVars
    <3> QED
      BY <2>1, <3>1, <3>2, <3>3 DEF Update, updateClientConnection
  <2>2. ASSUME NEW i \in Clients, HandleClient(i) PROVE ServerIsConnected'
    BY <2>2 DEF HandleClient, connectionVars
  <2>3. CASE AcceptNewClient \/ RadioJoins \/ RadioLost
    BY <2>3 DEF AcceptNewClient, RadioJoins, RadioLost, connectionVars
  <2>4. ASSUME NEW i \in Clients, NEW what \in Inputs, ClientSends(i, what)
        PROVE  ServerIsConnected'
    BY <2>4 DEF ClientSends, connectionVars
  <2>5. CASE Tick \/ setWifiEnabled
    BY <2>5 DEF Tick, setWifiEnabled
  <2>6. CASE UNCHANGED wifiVars
    BY <2>6 DEF wifiVars, connectionVars
  <2> QED
    BY <2>1, <2>2, <2>3, <2>4, <2>5, <2>6 DEF Next
<1> QED
  BY <1>1, <1>2, TypeCorrect, PTL DEF Spec

(* A poll that has gone on to the clients found the server up, and nothing *)
(* but the next poll looks at the connection again.                        *)
PollFoundServer ==
    cursor # 0 => /\ wifiServer = "Begun"
                  /\ serverActive /\ connectionState = "Connected"

(* The HTTP server of a server that was begun runs exactly while the       *)
(* device is connected, and only then a slot changes hands, for any number *)
(* of slots and whenever the radio is lost.                                *)
THEOREM ServerFollows == Spec => ServerFollowsConnection
<1>1. Init => PollFoundServer
  BY DEF Init, PollFoundServer
<1>2. /\ TypeOK /\ ServerIsConnected' /\ PollFoundServer /\ [Next]_wifiVars
      => PollFoundServer'
  <2> SUFFICES ASSUME TypeOK, ServerIsConnected', PollFoundServer, [Next]_wifiVars
               PROVE  PollFoundServer'
    OBVIOUS
  <2>1. CASE Update
    <3>1. wifiServer' = "Begun"
      BY <2>1 DEF Update, updateClientConnection, Check, LoseConnection, Retry, Restart,
                  NothingDue, Setup, connectionVars
    <3> QED
      BY <2>1, <3>1 DEF Update, Served, PollFoundServer, ServerIsConnected
  <2>2. ASSUME NEW i \in Clients, HandleClient(i) PROVE PollFoundServer'
    BY <2>2, WifiAssumption DEF HandleClient, connectionVars, PollFoundServer, Clients
  <2>3. CASE AcceptNewClient
    BY <2>3 DEF AcceptNewClient, PollFoundServer
  <2>4. CASE RadioJoins \/ RadioLost
    BY <2>4 DEF RadioJoins, RadioLost, connectionVars, PollFoundServer
  <2>5. ASSUME NEW i \in Clients, NEW what \in Inputs, ClientSends(i, what)
        PROVE  PollFoundServer'
    BY <2>5 DEF ClientSends, connectionVars, PollFoundServer
  <2>6. CASE Tick \/ setWifiEnabled
    BY <2>6 DEF Tick, setWifiEnabled, PollFoundServer
  <2>7. CASE UNCHANGED wifiVars
    BY <2>7 DEF wifiVars, connectionVars, PollFoundServer
  <2> QED
    BY <2>1, <2>2, <2>3, <2>4, <2>5, <2>6, <2>7 DEF Next
<1>3. TypeOK /\ PollFoundServer /\ [Next]_wifiVars
      => [\A i \in Clients : slots'[i].state # slots[i].state
             => serverActive /\ connectionState = "Connected"]_wifiVars
  <2> SUFFICES ASSUME TypeOK, PollFoundServer, [Next]_wifiVars, NEW i \in Clients,
                      slots'[i].state # slots[i].state
               PROVE  serverActive /\ connectionState = "Connected"
    OBVIOUS
  <2>1. ASSUME NEW j \in Clients, HandleClient(j)
        PROVE  serverActive /\ connectionState = "Connected"
    BY <2>1, WifiAssumption DEF HandleClient, PollFoundServer, Clients
  <2>2. CASE AcceptNewClient
    BY <2>2, WifiAssumption DEF AcceptNewClient, PollFoundServer
  <2>3. CASE Tick
    <3>1. slots[i] \in Slot
      BY DEF TypeOK
    <3>2. slots'[i] = IF slots[i].state \in {"ReadingRequest", "KeepAlive"}
                      THEN [slots[i] EXCEPT !.age = Aged(@, LastAge)] ELSE slots[i]
      BY <2>3 DEF Tick
    <3> QED
      BY <3>1, <3>2 DEF Slot
  <2>4. CASE Update \/ RadioJoins \/ RadioLost \/ setWifiEnabled \/ UNCHANGED wifiVars
    BY <2>4 DEF Update, RadioJoins, RadioLost, setWifiEnabled, wifiVars
  <2>5. ASSUME NEW j \in Clients, NEW what \in Inputs, ClientSends(j, what)
        PROVE  FALSE
    BY <2>5 DEF ClientSends
  <2> QED
    BY <2>1, <2>2, <2>3, <2>4, <2>5 DEF Next
<1> QED
  BY <1>1, <1>2, <1>3, TypeCorrect, ServerAlwaysConnected, PTL
  DEF Spec, ServerFollowsConnection

-----------------------------------------------------------------------------
(* Sets of slots are finite.                                               *)
LEMMA SlotSetsFinite ==
    ASSUME NEW S \in SUBSET Clients
    PROVE  IsFiniteSet(S) /\ Cardinality(S) \in Nat
<1>1. IsFiniteSet(Clients)
  BY FS_Interval, WifiAssumption DEF Clients
<1>2. IsFiniteSet(S)
  BY <1>1, FS_Subset
<1> QED
  BY <1>2, FS_CardinalityType

(* The quota is kept by a step that makes no other client persistent.      *)
LEMMA FewerKeepQuota ==
    ASSUME QuotaKept, Persistent' \subseteq Persistent
    PROVE  QuotaKept'
<1>1. Persistent \in SUBSET Clients
  BY DEF Persistent
<1>2. Persistent' \in SUBSET Clients
  BY DEF Persistent
<1>3. Cardinality(Persistent') <= Cardinality(Persistent)
  BY <1>1, SlotSetsFinite, FS_Subset
<1>4. Cardinality(Persistent) \in Nat /\ Cardinality(Persistent') \in Nat
  BY <1>1, <1>2, SlotSetsFinite
<1> QED
  BY <1>3, <1>4, WifiAssumption DEF QuotaKept

(* A client that is granted a persistent connection fits into the quota    *)
(* with all the others that are persistent at that moment.                 *)
LEMMA GrantKeepsQuota ==
    ASSUME NEW i \in Clients, QuotaLeft(i), Persistent' \subseteq (Persistent \ {i}) \cup {i}
    PROVE  QuotaKept'
<1> DEFINE Others == Persistent \ {i}
<1>1. Others \in SUBSET Clients /\ Persistent' \in SUBSET Clients
  BY DEF Persistent
<1>2. IsFiniteSet(Others) /\ Cardinality(Others) \in Nat /\ Cardinality(Persistent') \in Nat
  BY <1>1, SlotSetsFinite
<1>3. /\ IsFiniteSet(Others \cup {i})
      /\ Cardinality(Others \cup {i}) = Cardinality(Others) + 1
  <2>1. i \notin Others
    OBVIOUS
  <2> HIDE DEF Others
  <2> QED
    BY <1>2, <2>1, FS_AddElement
<1>4. Cardinality(Persistent') <= Cardinality(Others \cup {i})
  BY <1>3, FS_Subset
<1>5. Cardinality(Others) < MaxPersistentClients
  BY DEF QuotaLeft
<1> HIDE DEF Others
<1> QED
  BY <1>2, <1>3, <1>4, <1>5, WifiAssumption DEF QuotaKept

(* Persistent connections never exceed their quota.                        *)
THEOREM QuotaAlwaysKept == Spec => []QuotaKept
<1>1. Init => QuotaKept
  <2> SUFFICES ASSUME Init PROVE QuotaKept
    OBVIOUS
  <2>1. Persistent = {}
    BY DEF Init, IdleSlot, SlotIn, Persistent
  <2> QED
    BY <2>1, FS_EmptySet, WifiAssumption DEF QuotaKept
<1>2. TypeOK /\ QuotaKept /\ [Next]_wifiVars => QuotaKept'
  <2> SUFFICES ASSUME TypeOK, QuotaKept, [Next]_wifiVars PROVE QuotaKept'
    OBVIOUS
  <2> USE DEF TypeOK
  <2>1. ASSUME NEW i \in Clients, HandleClient(i) PROVE QuotaKept'
    <3>1. ASSUME Cleanup(i) PROVE QuotaKept'
      <4>1. Persistent' \subseteq Persistent
        BY <3>1 DEF Cleanup, Put, IdleSlot, SlotIn, Persistent
      <4> QED
        BY <4>1, FewerKeepQuota
    <3>2. CASE ReadRequest(i)
      <4>1. CASE Cleanup(i)
        BY <3>1, <4>1
      <4>2. CASE ~Cleanup(i)
        <5>1. Persistent' \subseteq Persistent
          BY <3>2, <4>2 DEF ReadRequest, Put, SlotIn, Persistent, Slot
        <5> QED
          BY <5>1, FewerKeepQuota
      <4> QED
        BY <4>1, <4>2
    <3>3. CASE ProcessRequest(i)
      <4>1. CASE slots[i].request = "Keep" /\ QuotaLeft(i)
        <5>1. Persistent' \subseteq (Persistent \ {i}) \cup {i}
          BY <3>3, <4>1 DEF ProcessRequest, Put, SlotIn, Persistent
        <5> QED
          BY <4>1, <5>1, GrantKeepsQuota
      <4>2. CASE ~(slots[i].request = "Keep" /\ QuotaLeft(i))
        BY <3>1, <3>3, <4>2 DEF ProcessRequest
      <4> QED
        BY <4>1, <4>2
    <3>4. CASE KeepClient(i)
      <4>1. CASE Cleanup(i)
        BY <3>1, <4>1
      <4>2. CASE ~Cleanup(i)
        <5>1. Persistent' \subseteq Persistent
          BY <3>4, <4>2 DEF KeepClient, Put, SlotIn, Persistent, Slot
        <5> QED
          BY <5>1, FewerKeepQuota
      <4> QED
        BY <4>1, <4>2
    <3>5. CASE slots[i].state = "Idle" /\ UNCHANGED <<slots, input>>
      BY <3>5, FewerKeepQuota DEF Persistent
    <3> QED
      BY <2>1, <3>2, <3>3, <3>4, <3>5 DEF HandleClient
  <2>2. CASE AcceptNewClient
    <3>1. Persistent' \subseteq Persistent
      BY <2>2 DEF AcceptNewClient, Put, Free, IdleSlot, SlotIn, Persistent
    <3> QED
      BY <3>1, FewerKeepQuota
  <2>3. CASE Tick
    <3>1. Persistent' \subseteq Persistent
      BY <2>3 DEF Tick, Persistent, Slot
    <3> QED
      BY <3>1, FewerKeepQuota
  <2>4. CASE UNCHANGED slots
    BY <2>4, FewerKeepQuota DEF Persistent
  <2>5. ASSUME NEW i \in Clients, NEW what \in Inputs, ClientSends(i, what)
        PROVE  UNCHANGED slots
    BY <2>5 DEF ClientSends
  <2> QED
    BY <2>1, <2>2, <2>3, <2>4, <2>5
       DEF Next, Update, RadioJoins, RadioLost, setWifiEnabled, wifiVars
<1> QED
  BY <1>1, <1>2, TypeCorrect, PTL DEF Spec
=============================================================================
