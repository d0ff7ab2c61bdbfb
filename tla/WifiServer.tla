------------------------------ MODULE WifiServer ------------------------------
(***************************************************************************)
(* The WiFi connection and the HTTP server on it (WifiServer.cpp), on the  *)
(* ESP32 radio.  A poll first looks after the connection and then, when it *)
(* is up, after every client slot in turn and one new client.  Radio and   *)
(* clients act at any moment between these steps.  Times are ages (now     *)
(* less the recorded time) that grow until they make no difference.        *)
(***************************************************************************)
EXTENDS Naturals, FiniteSets

CONSTANTS
    MaxConcurrentClients, MaxPersistentClients,
    ConnectionCheckInterval, ConnectionTimeout, ConnectionRetryInterval,
    BackoffInterval, RestartDelay, ClientReadTimeout, PersistentTimeout,
    MaxConsecutiveFailures,
    FailureRange,                 \* _consecutiveFailures counts modulo this
    StoredModes                   \* the modes that are configured at boot

ASSUME WifiAssumption ==
    /\ {MaxConcurrentClients, MaxPersistentClients} \subseteq Nat
    /\ {ConnectionCheckInterval, ConnectionTimeout, ConnectionRetryInterval,
        BackoffInterval, RestartDelay, ClientReadTimeout, PersistentTimeout,
        MaxConsecutiveFailures} \subseteq Nat
    /\ FailureRange \in Nat \ {0}
    /\ StoredModes \subseteq {"Off", "AccessPoint", "Client"}

Clients == 1 .. MaxConcurrentClients

ConnectionStates == {"Disconnected", "Connecting", "Connected", "Failed", "Restarting"}

\* What a client has sent and is not read yet: nothing, a part of a request, a
\* whole one (Keep asks for a persistent connection and may have it), one that
\* is refused for its size; or it has hung up.
Inputs == {"Nothing", "Part", "Request", "Keep", "TooLarge", "HungUp"}

VARIABLES
    mode,             \* _mode
    wifiServer,       \* Absent, NotBegun (not _initialized) or Begun
    connectionState,  \* _connectionState
    failures,         \* _consecutiveFailures
    attemptAge,       \* now - _lastConnectionAttempt
    stateAge,         \* now - _connectionStartTime; now - _restartTime + delay
    serverActive,     \* _serverActive
    radio,            \* the radio: Off, Joining (on its own) or Joined
    slots,            \* _activeClients
    input,            \* the socket of each slot
    cursor            \* where the poll has got to: 0 is outside update()

connectionVars == <<mode, wifiServer, connectionState, failures, attemptAge, stateAge,
                    serverActive>>
wifiVars == <<connectionVars, radio, slots, input, cursor>>

Larger(a, b) == IF a > b THEN a ELSE b
LastAge == Larger(ClientReadTimeout, PersistentTimeout)
LastAttemptAge ==
    Larger(Larger(ConnectionCheckInterval, ConnectionRetryInterval), BackoffInterval)
LastStateAge == Larger(ConnectionTimeout, RestartDelay + 1)

\* A slot, how long it has been in its state, and the request that was read.
SlotIn(s, persistent, what) ==
    [state |-> s, isPersistent |-> persistent, request |-> what, age |-> 0]
IdleSlot == SlotIn("Idle", FALSE, "Nothing")

-----------------------------------------------------------------------------
(* updateClientConnection(): the connection in client mode.                *)
Setup == UNCHANGED <<mode, wifiServer>>

FailuresCounted == (failures + 1) % FailureRange

\* The radio is asked once an interval whether it has joined.
Check ==
    /\ connectionState = "Connecting" /\ attemptAge >= ConnectionCheckInterval
    /\ attemptAge' = 0
    /\ \/ /\ radio = "Joined"
          /\ connectionState' = "Connected" /\ failures' = 0 /\ serverActive' = TRUE
       \/ /\ radio # "Joined" /\ stateAge >= ConnectionTimeout
          /\ connectionState' = "Failed" /\ failures' = FailuresCounted
          /\ UNCHANGED serverActive
       \/ /\ radio # "Joined" /\ stateAge < ConnectionTimeout
          /\ UNCHANGED <<connectionState, failures, serverActive>>
    /\ UNCHANGED <<stateAge, radio>> /\ Setup

LoseConnection ==
    /\ connectionState = "Connected" /\ radio # "Joined"
    /\ connectionState' = "Disconnected" /\ serverActive' = FALSE
    /\ UNCHANGED <<failures, attemptAge, stateAge, radio>> /\ Setup

FewRetries ==  \* fault: repeated failures are given up on
    failures < MaxConsecutiveFailures /\ attemptAge >= ConnectionRetryInterval
RetryDue ==
    attemptAge >= IF failures >= MaxConsecutiveFailures
                  THEN BackoffInterval ELSE ConnectionRetryInterval

Retry ==
    /\ connectionState \in {"Disconnected", "Failed"} /\ RetryDue
    /\ connectionState' = "Restarting" /\ stateAge' = 0 /\ radio' = "Off"
    /\ UNCHANGED <<failures, attemptAge, serverActive>> /\ Setup

Restart ==
    /\ connectionState = "Restarting" /\ stateAge > RestartDelay
    /\ connectionState' = "Connecting" /\ stateAge' = 0 /\ attemptAge' = 0
    /\ radio' = "Joining"
    /\ UNCHANGED <<failures, serverActive>> /\ Setup

NothingDue ==
    /\ mode = "Client" =>
          \/ connectionState = "Connecting" /\ attemptAge < ConnectionCheckInterval
          \/ connectionState = "Connected" /\ radio = "Joined"
          \/ connectionState \in {"Disconnected", "Failed"} /\ ~RetryDue
          \/ connectionState = "Restarting" /\ stateAge <= RestartDelay
    /\ UNCHANGED <<connectionVars, radio>>

updateClientConnection ==
    mode = "Client" /\ (Check \/ LoseConnection \/ Retry \/ Restart)

isConnected == mode = "AccessPoint" \/ connectionState = "Connected"

ServedAsBefore ==  \* fault: what the connection was before the step decides
    serverActive /\ isConnected
Served == serverActive' /\ isConnected'

\* update(): the connection, and with the server up the client slots after it.
Update ==
    /\ cursor = 0 /\ wifiServer = "Begun"
    /\ updateClientConnection \/ NothingDue
    /\ cursor' = IF Served THEN 1 ELSE 0
    /\ UNCHANGED <<slots, input>>

-----------------------------------------------------------------------------
(* handleClientState(): the slot the poll has got to.                      *)
Put(i, slot) == slots' = [slots EXCEPT ![i] = slot]

\* cleanupClient() closes the socket, whatever is left in it.
Cleanup(i) == Put(i, IdleSlot) /\ input' = [input EXCEPT ![i] = "Nothing"]

Consume(i) == input' = [input EXCEPT ![i] = "Nothing"]

TimeoutFromLastByte(i) ==  \* fault: a client that dribbles is waited for
    slots[i].age >= ClientReadTimeout /\ input[i] # "Part"
ReadTimedOut(i) == slots[i].age >= ClientReadTimeout

\* The read is abandoned, or goes on, or the request is complete.
ReadRequest(i) ==
    /\ slots[i].state = "ReadingRequest"
    /\ \/ (ReadTimedOut(i) \/ input[i] = "TooLarge") /\ Cleanup(i)
       \/ /\ ~ReadTimedOut(i) /\ input[i] \in {"Nothing", "HungUp", "Part"}
          /\ input' = [input EXCEPT ![i] = IF @ = "Part" THEN "Nothing" ELSE @]
          /\ UNCHANGED slots
       \/ /\ ~ReadTimedOut(i) /\ input[i] \in {"Request", "Keep"}
          /\ Put(i, SlotIn("ProcessingRequest", slots[i].isPersistent, input[i]))
          /\ Consume(i)

Persistent == {i \in Clients : slots[i].isPersistent /\ slots[i].state # "Idle"}

QuotaIncludingNext(i) ==  \* fault: > for >=
    Cardinality(Persistent \ {i}) <= MaxPersistentClients
QuotaLeft(i) == Cardinality(Persistent \ {i}) < MaxPersistentClients

\* The request is answered, whatever the answer; then the client is kept if it
\* asked for that and may be.
ProcessRequest(i) ==
    /\ slots[i].state = "ProcessingRequest"
    /\ \/ /\ slots[i].request = "Keep" /\ QuotaLeft(i)
          /\ Put(i, SlotIn("KeepAlive", TRUE, "Nothing"))
          /\ UNCHANGED input
       \/ ~(slots[i].request = "Keep" /\ QuotaLeft(i)) /\ Cleanup(i)

KeepAliveEnds(i) == slots[i].age >= PersistentTimeout \/ input[i] = "HungUp"

KeepClient(i) ==
    /\ slots[i].state = "KeepAlive"
    /\ \/ KeepAliveEnds(i) /\ Cleanup(i)
       \/ /\ ~KeepAliveEnds(i) /\ input[i] # "Nothing"
          /\ Put(i, SlotIn("ReadingRequest", slots[i].isPersistent, "Nothing"))
          /\ UNCHANGED input
       \/ ~KeepAliveEnds(i) /\ input[i] = "Nothing" /\ UNCHANGED <<slots, input>>

HandleClient(i) ==
    /\ cursor = i
    /\ \/ ReadRequest(i) \/ ProcessRequest(i) \/ KeepClient(i)
       \/ slots[i].state = "Idle" /\ UNCHANGED <<slots, input>>
    /\ cursor' = i + 1
    /\ UNCHANGED <<connectionVars, radio>>

Free == {i \in Clients : slots[i].state = "Idle"}

\* The last step: a new client takes the first free slot, or is turned away.
AcceptNewClient ==
    /\ cursor = MaxConcurrentClients + 1
    /\ \/ \E i \in Free :
             /\ \A j \in Free : i <= j
             /\ Put(i, SlotIn("ReadingRequest", FALSE, "Nothing"))
       \/ UNCHANGED slots
    /\ cursor' = 0
    /\ UNCHANGED <<connectionVars, radio, input>>

-----------------------------------------------------------------------------
(* The world: clients, the access point, and time.                         *)
ClientSends(i, what) ==
    /\ slots[i].state # "Idle" /\ input[i] # "HungUp"
    /\ input' = [input EXCEPT ![i] = what]
    /\ UNCHANGED <<connectionVars, radio, slots, cursor>>

RadioJoins ==
    /\ radio = "Joining" /\ radio' = "Joined"
    /\ UNCHANGED <<connectionVars, slots, input, cursor>>

\* The radio goes on trying by itself.
RadioLost ==
    /\ radio = "Joined" /\ radio' = "Joining"
    /\ UNCHANGED <<connectionVars, slots, input, cursor>>

Aged(age, last) == IF age < last THEN age + 1 ELSE age

Tick ==
    /\ cursor = 0
    /\ attemptAge' = Aged(attemptAge, LastAttemptAge)
    /\ stateAge' = IF connectionState \in {"Connecting", "Restarting"}
                   THEN Aged(stateAge, LastStateAge) ELSE stateAge
    /\ slots' = [i \in Clients |->
                   IF slots[i].state \in {"ReadingRequest", "KeepAlive"}
                   THEN [slots[i] EXCEPT !.age = Aged(@, LastAge)] ELSE slots[i]]
    /\ UNCHANGED <<mode, wifiServer, connectionState, failures, serverActive, radio,
                   input, cursor>>

\* C11 with WiFi off: a server is created, and never begun.
setWifiEnabled ==
    /\ cursor = 0 /\ wifiServer = "Absent" /\ wifiServer' = "NotBegun"
    /\ UNCHANGED <<mode, connectionState, failures, attemptAge, stateAge, serverActive,
                   radio, slots, input, cursor>>

-----------------------------------------------------------------------------
\* applyConfig() at boot; an access point that does not start is disabled.
Absent ==
    wifiServer = "Absent" /\ connectionState = "Disconnected" /\ serverActive = FALSE
        /\ radio = "Off"
AccessPointUp ==
    wifiServer = "Begun" /\ connectionState = "Connected" /\ serverActive = TRUE
        /\ radio = "Off"
ClientBegun ==
    wifiServer = "Begun" /\ connectionState = "Connecting" /\ serverActive = FALSE
        /\ radio = "Joining"

Init ==
    /\ mode \in StoredModes
    /\ \/ mode \in {"Off", "AccessPoint"} /\ Absent
       \/ mode = "AccessPoint" /\ AccessPointUp
       \/ mode = "Client" /\ ClientBegun
    /\ failures = 0 /\ attemptAge = 0 /\ stateAge = 0
    /\ slots = [i \in Clients |-> IdleSlot]
    /\ input = [i \in Clients |-> "Nothing"]
    /\ cursor = 0

Next ==
    \/ Update
    \/ \E i \in Clients : HandleClient(i)
    \/ AcceptNewClient
    \/ \E i \in Clients, what \in Inputs \ {"Nothing"} : ClientSends(i, what)
    \/ RadioJoins \/ RadioLost
    \/ Tick
    \/ setWifiEnabled

Spec == Init /\ [][Next]_wifiVars

\* The loop polls, a poll is finished, and time passes between polls.
FairSpec ==
    /\ Spec
    /\ WF_wifiVars(Update) /\ WF_wifiVars(AcceptNewClient) /\ SF_wifiVars(Tick)
    /\ \A i \in Clients : WF_wifiVars(HandleClient(i))

-----------------------------------------------------------------------------
Slot == [state : {"Idle", "ReadingRequest", "ProcessingRequest", "KeepAlive"},
         isPersistent : BOOLEAN, request : {"Nothing", "Request", "Keep"}, age : 0 .. LastAge]

TypeOK ==
    /\ mode \in {"Off", "AccessPoint", "Client"}
    /\ wifiServer \in {"Absent", "NotBegun", "Begun"}
    /\ connectionState \in ConnectionStates
    /\ failures \in 0 .. FailureRange - 1
    /\ attemptAge \in 0 .. LastAttemptAge /\ stateAge \in 0 .. LastStateAge
    /\ serverActive \in BOOLEAN
    /\ radio \in {"Off", "Joining", "Joined"}
    /\ slots \in [Clients -> Slot] /\ input \in [Clients -> Inputs]
    /\ cursor \in 0 .. MaxConcurrentClients + 1

(* Persistent connections never take more than their share of the slots,   *)
(* although each is granted, reused and dropped at a time of its own.      *)
QuotaKept == Cardinality(Persistent) <= MaxPersistentClients

(* Docs/Wifi.md: "Starts HTTP server only when connected. Stops server on  *)
(* disconnect": the server runs exactly while the device is connected,     *)
(* through failures, retries and restarts of the radio; and though a slot  *)
(* outlives the connection, and with it a request that was read already,   *)
(* no client is accepted, read, answered or let go without one: update()   *)
(* looks after the connection before the clients, and the radio may be     *)
(* lost while it goes over them.                                           *)
ServerIsConnected ==
    wifiServer = "Begun" => (serverActive <=> connectionState = "Connected")

ServerFollowsConnection ==
    /\ []ServerIsConnected
    /\ [][\A i \in Clients : slots'[i].state # slots[i].state
             => serverActive /\ connectionState = "Connected"]_wifiVars

\* The access point is in reach: the radio joins within a tick and is not lost.
InReach ==
    /\ <>[](connectionState = "Connecting" /\ stateAge > 0 => radio = "Joined")
    /\ <>[][~RadioLost]_wifiVars

(* Docs/Wifi.md, "Automatic Reconnection": once the access point stays in  *)
(* reach the hub gets connected and stays it, however often it failed.     *)
Reconnects == mode = "Client" /\ InReach => <>[](connectionState = "Connected")

(* No client keeps a slot without a request: while the connection lasts a  *)
(* slot that is being read is read, dropped or answered, also when its     *)
(* client sends a byte now and then, and a kept one is used or dropped.    *)
SlotsComeFree ==
    \A i \in Clients :
        <>[](serverActive /\ isConnected) /\ <>[][\A what \in {"Request", "Keep"} :
                                                   ~ClientSends(i, what)]_wifiVars
            => []<>(slots[i].state = "Idle")
=============================================================================
