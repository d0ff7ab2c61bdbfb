------------------------------- MODULE MqttLink --------------------------------
(***************************************************************************)
(* The connection to the MQTT broker: the packet reader and keep-alive of  *)
(* MQTTClient.cpp, the retries of MQTTController.cpp, and the relay states *)
(* and discovery that MQTTRelayHandler.cpp keeps at the broker.  The loop  *)
(* passes through the phases Read, KeepAlive, Retry and Relays; network,   *)
(* broker and the rest of the hub act while it rests.                      *)
(***************************************************************************)
EXTENDS Naturals, Sequences

CONSTANTS
    RelayCount,         \* ConfigRelayCount
    EnabledRelays,      \* the relays that have a pin
    ReservedRelays,     \* of these, the ones setRelayState refuses
    MaxRetries,         \* MqttMaxRetries
    RetryDelays,        \* MqttRetryDelays, in ticks, RetryDelays[1] first
    ConnectTimeout, KeepAliveInterval, PingTimeout

Relays == 0 .. RelayCount - 1

ASSUME MqttAssumption ==
    /\ RelayCount \in Nat /\ EnabledRelays \subseteq Relays
    /\ ReservedRelays \subseteq EnabledRelays
    /\ MaxRetries \in Nat /\ RetryDelays \in [1 .. MaxRetries -> Nat]
    /\ {ConnectTimeout, KeepAliveInterval, PingTimeout} \subseteq Nat

\* What the broker sends: the answers to CONNECT and PINGREQ, a command to a
\* relay, and a message of 128 bytes or more, whose length takes two bytes.
Payloads == {"ON", "OFF", "TOGGLE", "Unknown"}
Command(r, what) == [type |-> "Command", relay |-> r, payload |-> what]
Plain(what) == [type |-> what]
Packets == {Plain(w) : w \in {"Accepted", "Refused", "PingResp", "Long"}}
               \cup {Command(r, w) : r \in Relays, w \in Payloads}

VARIABLES
    phase,            \* where the loop is
    state,            \* MQTTClient::_state
    link,             \* the TCP connection: None, Up, Dead (nobody noticed), Closed
    inbox,            \* what has arrived on it and is not read
    rx,               \* _rxBuffer: Empty, a Part of a packet of this connection, a
                      \* Stale part of one from an earlier, Blocked by a long one
    sendAge,          \* now - _lastSendTime
    receiveAge,       \* now - _lastReceiveTime
    attemptAge,       \* now - _lastRetryTime, now - _connectAttemptTime
    retryCount,       \* MQTTController::_retryCount
    reachable,        \* WiFi is connected and a broker listens
    relayStatus,      \* RelayController::_relayStatus
    discoveryIndex,   \* _discoveryIndex; RelayCount while nothing is pending
    retained,         \* at the broker: the relay states,
    discovered        \* and the relays announced to Home Assistant

clientVars == <<state, link, inbox, rx, sendAge, receiveAge>>
controllerVars == <<attemptAge, retryCount>>
brokerVars == <<retained, discovered>>
mqttVars == <<phase, clientVars, controllerVars, reachable, relayStatus, discoveryIndex,
              brokerVars>>

-----------------------------------------------------------------------------
(* MQTTClient: writing.                                                    *)
CanWrite == link \in {"Up", "Dead"}

\* writePacket(): what goes into a dead connection is never heard of again.
Written == sendAge' = IF CanWrite THEN 0 ELSE sendAge

Payload(on) == IF on THEN "ON" ELSE "OFF"

\* publishRelayState() of every relay in R, as the states are after this step.
PublishRelays(R) ==
    IF state' = "Connected" /\ R # {}
    THEN /\ Written
         /\ retained' = IF link = "Up"
                        THEN [r \in Relays |-> IF r \in R THEN Payload(relayStatus'[r]) ELSE retained[r]]
                        ELSE retained
    ELSE UNCHANGED <<sendAge, retained>>

\* disconnect(), and what onMqttConnected(false) counts.  Part of a packet that
\* was read stays in the buffer; ages nobody reads before they are set are 0.
Drop ==
    /\ state' = "Disconnected" /\ link' = "None" /\ inbox' = <<>>
    /\ sendAge' = 0 /\ receiveAge' = 0
    /\ retryCount' = retryCount + 1
    /\ UNCHANGED <<attemptAge, reachable, relayStatus, discoveryIndex, brokerVars>>

KeepPart == rx' = IF rx = "Part" THEN "Stale" ELSE rx

-----------------------------------------------------------------------------
(* MQTTClient: reading, one packet a pass.                                 *)
SilentRelays == {}  \* fault: the states are not published on a new connection
ToldOnConnect == EnabledRelays

DiscoveryContinued == discoveryIndex  \* fault: discovery goes on where it was
DiscoveryStart == 0

\* processConnAck(), onMqttConnected(true) and the MqttConnected subscriber.
ProcessConnAck ==
    /\ state' = "Connected" /\ receiveAge' = 0 /\ retryCount' = 0
    /\ discoveryIndex' = DiscoveryStart
    /\ UNCHANGED relayStatus
    /\ PublishRelays(ToldOnConnect)
    /\ UNCHANGED <<link, attemptAge, reachable, discovered>>

\* handleRelayCommand(): ON, OFF or TOGGLE, unless the relay has no pin or is
\* reserved, and RelayStatusChanged when that changes it.
Commanded(r, what) ==
    [relayStatus EXCEPT ![r] = what = "ON" \/ (what = "TOGGLE" /\ ~relayStatus[r])]

Obeyed(r, what) == r \in EnabledRelays \ ReservedRelays /\ what # "Unknown"

HandleRelayCommand(r, what) ==
    /\ relayStatus' = IF Obeyed(r, what) THEN Commanded(r, what) ELSE relayStatus
    /\ receiveAge' = 0
    /\ UNCHANGED state
    /\ PublishRelays({s \in EnabledRelays : relayStatus'[s] # relayStatus[s]})
    /\ UNCHANGED <<link, controllerVars, reachable, discoveryIndex, discovered>>

ProcessPublish(p) == p.type = "Command" /\ HandleRelayCommand(p.relay, p.payload)

PingAnswered == receiveAge' = 0

ProcessPingResp ==
    /\ PingAnswered
    /\ UNCHANGED <<state, link, sendAge, controllerVars, reachable, relayStatus,
                   discoveryIndex, brokerVars>>

ProcessPacket(p) ==
    \/ /\ p.type \in {"Accepted", "Command", "PingResp"}
       /\ \/ p.type = "Accepted" /\ ProcessConnAck
          \/ ProcessPublish(p)
          \/ p.type = "PingResp" /\ ProcessPingResp
       /\ inbox' = Tail(inbox) /\ rx' = "Empty" /\ phase' = "KeepAlive"
    \/ p.type = "Refused" /\ Drop /\ rx' = "Empty" /\ phase' = "Retry"

Unprocessed == UNCHANGED <<state, link, sendAge, receiveAge, controllerVars, reachable,
                           relayStatus, discoveryIndex, brokerVars>>

\* A packet arrives whole or in parts.  The bytes that follow a stale part are
\* taken for the rest of it, and end up as nothing, as another part, or as a
\* refusal; of a long packet the last byte is never read.
ReadPacket ==
    \/ rx = "Empty" /\ rx' = "Part" /\ phase' = "Retry" /\ UNCHANGED inbox /\ Unprocessed
    \/ /\ rx \in {"Empty", "Part"} /\ Head(inbox).type # "Long"
       /\ ProcessPacket(Head(inbox))
    \/ /\ rx \in {"Empty", "Part"} /\ Head(inbox).type = "Long"
       /\ rx' = "Blocked" /\ inbox' = Tail(inbox) /\ phase' = "Retry" /\ Unprocessed
    \/ /\ rx = "Stale" /\ rx' \in {"Empty", "Stale"}
       /\ inbox' = Tail(inbox) /\ phase' = "Retry" /\ Unprocessed
    \/ rx = "Stale" /\ Drop /\ rx' = "Empty" /\ phase' = "Retry"

NeverTimedOut == FALSE  \* fault: a broker that does not answer is waited for
ConnectTimedOut == state = "Connecting" /\ attemptAge > ConnectTimeout

\* update() up to the keep-alive.
Read ==
    /\ phase = "Read"
    /\ \/ (link = "Closed" \/ ConnectTimedOut) /\ Drop /\ KeepPart /\ phase' = "Retry"
       \/ /\ link # "Closed" /\ ~ConnectTimedOut
          /\ \/ inbox # <<>> /\ rx # "Blocked" /\ ReadPacket
             \/ /\ inbox = <<>> /\ rx # "Blocked" /\ phase' = "KeepAlive"
                /\ UNCHANGED <<inbox, rx>> /\ Unprocessed
             \/ rx = "Blocked" /\ phase' = "Retry" /\ UNCHANGED <<inbox, rx>> /\ Unprocessed

Silent == receiveAge > KeepAliveInterval + PingTimeout

\* The rest of update(): a ping after an interval without sending anything.
KeepAlive ==
    /\ phase = "KeepAlive" /\ phase' = "Retry"
    /\ \/ state = "Connected" /\ Silent /\ Drop /\ KeepPart
       \/ /\ state = "Connected" /\ ~Silent /\ sendAge > KeepAliveInterval
          /\ Written
          /\ inbox' = IF link = "Up" THEN Append(inbox, Plain("PingResp")) ELSE inbox
          /\ UNCHANGED <<state, link, rx, receiveAge, controllerVars, reachable,
                         relayStatus, discoveryIndex, brokerVars>>
       \/ /\ state = "Connected" => ~Silent /\ sendAge <= KeepAliveInterval
          /\ UNCHANGED <<inbox, rx>> /\ Unprocessed

-----------------------------------------------------------------------------
(* MQTTController: connecting.  An attempt that never reaches the broker   *)
(* is not counted.                                                         *)
ShouldRetry == retryCount < MaxRetries /\ attemptAge >= RetryDelays[retryCount + 1]

RetryDue == phase = "Retry" /\ state = "Disconnected" /\ ShouldRetry

\* The broker accepts, refuses or says nothing.
Connect(answer) ==
    /\ RetryDue /\ reachable
    /\ state' = "Connecting" /\ link' = "Up" /\ inbox' = answer
    /\ sendAge' = 0 /\ attemptAge' = 0
    /\ phase' = "Relays"
    /\ UNCHANGED <<rx, receiveAge, retryCount, reachable, relayStatus, discoveryIndex,
                   brokerVars>>

ConnectFails ==
    /\ RetryDue /\ ~reachable
    /\ attemptAge' = 0 /\ phase' = "Relays"
    /\ UNCHANGED <<clientVars, retryCount, reachable, relayStatus, discoveryIndex, brokerVars>>

NoRetry ==
    /\ phase = "Retry" /\ ~RetryDue /\ phase' = "Relays"
    /\ UNCHANGED <<clientVars, controllerVars, reachable, relayStatus, discoveryIndex,
                   brokerVars>>

(* MQTTRelayHandler::update(): discovery, a relay a pass.                  *)
PublishDiscovery ==
    /\ phase = "Relays" /\ phase' = "Rest"
    /\ IF discoveryIndex < RelayCount /\ state = "Connected"
       THEN /\ discoveryIndex' = discoveryIndex + 1
            /\ IF discoveryIndex \in EnabledRelays
               THEN /\ Written
                    /\ discovered' = IF link = "Up" THEN discovered \cup {discoveryIndex}
                                     ELSE discovered
               ELSE UNCHANGED <<sendAge, discovered>>
       ELSE UNCHANGED <<discoveryIndex, sendAge, discovered>>
    /\ UNCHANGED <<state, link, inbox, rx, receiveAge, controllerVars, reachable,
                   relayStatus, retained>>

-----------------------------------------------------------------------------
(* Between two passes.                                                     *)
\* Any other part of the hub switches a relay: RelayStatusChanged is published.
SwitchRelay(r) ==
    /\ phase = "Rest"
    /\ relayStatus' = [relayStatus EXCEPT ![r] = ~@]
    /\ UNCHANGED state
    /\ PublishRelays({r})
    /\ UNCHANGED <<phase, link, inbox, rx, receiveAge, controllerVars, reachable,
                   discoveryIndex, discovered>>

\* MQTTSensorHandler: the sensors' channels, every 2.5 s and as they change.
PublishSensors ==
    /\ phase = "Rest" /\ state = "Connected" /\ sendAge > 0
    /\ Written
    /\ UNCHANGED <<phase, state, link, inbox, rx, receiveAge, controllerVars, reachable,
                   relayStatus, discoveryIndex, brokerVars>>

BrokerSends(p) ==
    /\ phase = "Rest" /\ state = "Connected" /\ link = "Up" /\ inbox = <<>>
    /\ inbox' = <<p>>
    /\ UNCHANGED <<phase, state, link, rx, sendAge, receiveAge, controllerVars, reachable,
                   relayStatus, discoveryIndex, brokerVars>>

\* The connection is closed, or breaks and nobody tells the hub; what was under
\* way may be lost, and a broker that restarts forgets what it retained.
LoseLink ==
    /\ phase = "Rest" /\ link = "Up"
    /\ link' \in {"Dead", "Closed"}
    /\ inbox' \in {inbox, <<>>}
    /\ \/ UNCHANGED brokerVars
       \/ retained' = [r \in Relays |-> "Unknown"] /\ discovered' = {}
    /\ UNCHANGED <<phase, state, rx, sendAge, receiveAge, controllerVars, reachable,
                   relayStatus, discoveryIndex>>

ReachableChanges ==
    /\ phase = "Rest" /\ link # "Up"
    /\ reachable' = ~reachable
    /\ UNCHANGED <<phase, clientVars, controllerVars, relayStatus, discoveryIndex, brokerVars>>

AgesThatMatter == {RetryDelays[i] : i \in 1 .. MaxRetries} \cup {ConnectTimeout + 1}
LastAttemptAge == CHOOSE n \in AgesThatMatter : \A m \in AgesThatMatter : m <= n
Aged(age, last) == IF age < last THEN age + 1 ELSE age

LoopAgain ==
    /\ phase = "Rest" /\ phase' = "Read"
    /\ UNCHANGED <<clientVars, controllerVars, reachable, relayStatus, discoveryIndex,
                   brokerVars>>

\* At most one tick between two passes.
Tick ==
    /\ phase = "Rest" /\ phase' = "Read"
    /\ attemptAge' = Aged(attemptAge, LastAttemptAge)
    /\ IF state = "Connected"
       THEN /\ sendAge' = Aged(sendAge, KeepAliveInterval + PingTimeout + 1)
            /\ receiveAge' = Aged(receiveAge, KeepAliveInterval + PingTimeout + 1)
       ELSE UNCHANGED <<sendAge, receiveAge>>
    /\ UNCHANGED <<state, link, inbox, rx, retryCount, reachable, relayStatus,
                   discoveryIndex, brokerVars>>

\* begin() with MQTT enabled: the first attempt is due.
Init ==
    /\ phase = "Retry"
    /\ state = "Disconnected" /\ link = "None" /\ inbox = <<>> /\ rx = "Empty"
    /\ sendAge = 0 /\ receiveAge = 0 /\ attemptAge = 0 /\ retryCount = 0
    /\ reachable \in BOOLEAN
    /\ relayStatus \in [Relays -> BOOLEAN]
    /\ discoveryIndex = RelayCount
    /\ retained = [r \in Relays |-> "Unknown"] /\ discovered = {}

Answers == {<<Plain("Accepted")>>, <<Plain("Refused")>>, <<>>}

Next ==
    \/ Read \/ KeepAlive
    \/ \E answer \in Answers : Connect(answer)
    \/ ConnectFails \/ NoRetry
    \/ PublishDiscovery
    \/ \E r \in EnabledRelays : SwitchRelay(r)
    \/ PublishSensors
    \/ \E p \in Packets \ {Plain("Accepted"), Plain("Refused"), Plain("PingResp")} :
           BrokerSends(p)
    \/ LoseLink \/ ReachableChanges
    \/ LoopAgain \/ Tick

Spec == Init /\ [][Next]_mqttVars

\* The loop goes round and time passes.
FairSpec ==
    /\ Spec
    /\ WF_mqttVars(Read) /\ WF_mqttVars(KeepAlive)
    /\ WF_mqttVars(NoRetry \/ ConnectFails \/ \E answer \in Answers : Connect(answer))
    /\ WF_mqttVars(PublishDiscovery) /\ SF_mqttVars(Tick)

-----------------------------------------------------------------------------
TypeOK ==
    /\ phase \in {"Read", "KeepAlive", "Retry", "Relays", "Rest"}
    /\ state \in {"Disconnected", "Connecting", "Connected"}
    /\ link \in {"None", "Up", "Dead", "Closed"}
    /\ inbox \in Seq(Packets)
    /\ rx \in {"Empty", "Part", "Stale", "Blocked"}
    /\ {sendAge, receiveAge, attemptAge} \subseteq Nat
    /\ retryCount \in 0 .. MaxRetries
    /\ reachable \in BOOLEAN
    /\ relayStatus \in [Relays -> BOOLEAN]
    /\ discoveryIndex \in 0 .. RelayCount
    /\ retained \in [Relays -> {"Unknown", "ON", "OFF"}]
    /\ discovered \subseteq Relays

(* Home Assistant shows what the relays do: on a working connection the    *)
(* broker holds the state of every relay that has a pin, also of one that  *)
(* was switched while the connection was down, or seemed to be up, and     *)
(* also when the broker has forgotten everything.                          *)
StatesAgree ==
    state = "Connected" /\ link = "Up"
        => \A r \in EnabledRelays : retained[r] = Payload(relayStatus[r])

(* Every relay discovery has passed on a working connection is announced:  *)
(* a discovery cut short by a lost connection starts over.                 *)
AnnouncedInFull ==
    state = "Connected" /\ link = "Up"
        => \A r \in EnabledRelays : r < discoveryIndex => r \in discovered

\* Given up after so many failures in a row, or the reader waits for a byte that
\* it will not read: the two states the hub leaves with a reboot only.
Stuck == (state = "Disconnected" /\ retryCount = MaxRetries) \/ rx = "Blocked"

\* The network is there to stay and the broker accepts whoever connects.
NoMoreFaults ==
    /\ <>[]reachable /\ <>[][~LoseLink]_mqttVars
    /\ <>[][~Connect(<<Plain("Refused")>>) /\ ~Connect(<<>>)]_mqttVars

(* Once the faults cease the hub is connected again and again, unless it   *)
(* is stuck.                                                               *)
Returns == NoMoreFaults => []<>(state = "Connected" /\ link = "Up") \/ <>[]Stuck

=============================================================================
