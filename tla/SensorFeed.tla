----------------------------- MODULE SensorFeed -----------------------------
(***************************************************************************)
(* From the world to Home Assistant: a sensor reads its pins, keeps what    *)
(* it read and says so on the message bus; MQTTSensorHandler publishes the  *)
(* channels of the sensor, some at the event and not more often than once  *)
(* a second, all of them every 2.5 s and on a new connection.  A presence   *)
(* sensor switches relays as well.  One sensor at a time; a tick is a       *)
(* second.                                                                  *)
(***************************************************************************)
EXTENDS Naturals, Sequences

CONSTANTS
    Relays,         \* that a presence sensor may switch
    PulseSeconds    \* duration of a pulse; 0 means none

ASSUME FeedAssumption == PulseSeconds \in Nat /\ Relays \subseteq Nat \ {0}

Kinds == {"dht", "light", "water", "voltage", "reed", "presence", "remote"}

\* getMqttChannel() of each kind, in the order of the channels.
ChannelMap(kind) ==
    CASE kind = "dht" ->
            <<"temperature", "humidity", "dew_point", "comfort", "condensation">>
      [] kind = "light" -> <<"light", "light_level", "avg_light_level">>
      [] kind = "water" -> <<"water_level">>
      [] kind = "voltage" -> <<"voltage", "avg_voltage">>
      [] kind = "reed" -> <<"contact">>
      [] kind = "presence" -> <<"presence">>
      [] kind = "remote" -> <<"remote">>

\* executeAction(): what a presence sensor may be told to do.
Action(type, relay) == [type |-> type, relay |-> relay]
Actions == {Action(t, r) : t \in {"On", "Off", "Toggle", "Pulse"}, r \in Relays}
           \cup {Action(t, 0) : t \in {"AllOn", "AllOff", "None"}}

VARIABLES
    kind,       \* the sensor that is built
    world,      \* what there is to be read: one level for the whole sensor
    readable,   \* whether reading a DHT11 works
    value,      \* what the sensor's channels say: Unread, or a level; an average
                \*   is taken for the level it tends to
    shown,      \* by channel, at the broker: Unknown, or the text published last
    recent,     \* channels with an event less than a second ago
    link,       \* Up, Dead (nobody noticed) or Down
    discovery,  \* _discoveryIndex; behind the last channel: nothing pending
    mapped,     \* whether the handler found the sensor's channels
    powered,    \* the water sensor's supply is on
    reactions,  \* what the presence sensor does: on detection, when clear
    relayOn,    \* the relays
    pulse       \* the pulse under way: its relay and seconds left, or Idle

worldVars == <<kind, mapped, reactions, world, readable>>
sensedVars == <<value, powered, relayOn, pulse>>
brokerVars == <<shown, recent, link, discovery>>
feedVars == <<worldVars, sensedVars, brokerVars>>

Levels == {"low", "high"}
Unread == "unread"
Unknown == "unknown"
Idle == [relay |-> 0, left |-> 0]
Channels == {ChannelMap(kind)[i] : i \in DOMAIN ChannelMap(kind)}

\* _typeSlugToIndices: the channels that an event of the bus concerns.  The
\* handler subscribes to the events of three kinds of sensors only.
Concerned == CASE kind = "dht" -> {{"temperature"}, Channels \ {"temperature"}}
               [] kind \in {"light", "water"} -> {Channels}
               [] OTHER -> {}

---------------------------------------------------------------------------
(* MQTTSensorHandler *)

\* getMqttValue(): the text a channel is published with.  A number, a label and
\* what a remote device sent stand for themselves.
Word(on, off, level) == IF level = "high" THEN on ELSE off
MqttValue(c, level) == CASE c \in {"light", "contact"} -> Word("ON", "OFF", level)
                         [] c = "presence" -> Word("true", "false", level)
                         [] OTHER -> level

\* publishSensorState() of some channels with the values after this step.
Publish(channels) ==
    shown' = [c \in Channels |-> IF mapped /\ link = "Up" /\ c \in channels
                                THEN MqttValue(c, value') ELSE shown[c]]

\* The channels of an event are marked whether or not a connection is there.
Event(channels) == /\ Publish(channels \ recent)
                   /\ recent' = recent \cup channels

OnUpdate == Event(UNION Concerned)

WhatChanged == {}  \* fault: the metrics publish no channel again
AllChannels == Channels

\* SystemMetricsUpdated, from the system sensor that is always built.
MetricsUpdated == /\ link # "Down"
                  /\ UNCHANGED <<worldVars, sensedVars, recent, link, discovery>>
                  /\ Publish(AllChannels)

\* MqttConnected: all channels, and discovery (if it is wanted at all) from the
\* first one on.
Connect == /\ link = "Down" /\ link' = "Up"
           /\ shown' = IF mapped THEN [c \in Channels |-> MqttValue(c, value)] ELSE shown
           /\ discovery' = 1
           /\ UNCHANGED <<worldVars, sensedVars, recent>>

\* update(): one channel a second.
PublishDiscovery == /\ link # "Down" /\ mapped
                    /\ discovery <= Len(ChannelMap(kind))
                    /\ discovery' = discovery + 1
                    /\ UNCHANGED <<worldVars, sensedVars, shown, recent, link>>

\* A broker that restarts forgets what it had.
LoseLink == /\ \/ link = "Up" /\ link' \in {"Dead", "Down"}
               \/ link = "Dead" /\ link' = "Down"
            /\ shown' \in {shown, [c \in Channels |-> Unknown]}
            /\ UNCHANGED <<worldVars, sensedVars, recent, discovery>>

---------------------------------------------------------------------------
(* Sensors *)

RestUnchanged == UNCHANGED <<worldVars, powered, relayOn, pulse, link, discovery>>

\* Dht11SensorHandler: what was read is kept and told; a reading that fails
\* changes nothing.
PollDht == /\ kind = "dht"
           /\ IF readable THEN value' = world /\ OnUpdate
                          ELSE UNCHANGED <<value, shown, recent>>
           /\ RestUnchanged

PollLight == kind = "light" /\ value' = world /\ OnUpdate /\ RestUnchanged

\* VoltageSensorHandler: what was read is kept and nobody is told.
PollVoltage == kind = "voltage" /\ value' = world /\ OnUpdate /\ RestUnchanged

\* WaterSensorHandler: its supply is switched on, and the level is read once
\* it is stable.
PowerUp == /\ kind = "water" /\ ~powered /\ powered' = TRUE
           /\ UNCHANGED <<worldVars, value, relayOn, pulse, brokerVars>>
ReadWater == /\ kind = "water" /\ powered /\ value' = world /\ OnUpdate
             /\ powered' = FALSE
             /\ UNCHANGED <<worldVars, relayOn, pulse, link, discovery>>

\* ReedSensorHandler: only a change is looked at; its pin follows the contact.
PollReed == /\ kind = "reed" /\ value # world
            /\ value' = world /\ OnUpdate
            /\ RestUnchanged

\* handleCommand(): a reading that arrives as a command is told on the bus and
\* remembered for queries; the sensor of that kind keeps its own value, and it
\* is that one that is published.
SensorCommand == /\ kind \in {"dht", "water"}
                 /\ UNCHANGED value /\ RestUnchanged
                 /\ \E channels \in Concerned : Event(channels)

\* RemoteSensor: the device sends its value with the sensor's own command.
RemoteCommand == /\ kind = "remote" /\ value # world
                 /\ value' = world
                 /\ UNCHANGED <<worldVars, powered, relayOn, pulse, brokerVars>>

\* onMessage(): a message on the sensor's topic brings two values; a sensor of
\* the configuration has one and ignores them, but is published again.
RemoteMessage == /\ kind = "remote" /\ link = "Up"
                 /\ UNCHANGED value
                 /\ Publish(Channels) /\ recent' = recent \cup Channels
                 /\ UNCHANGED <<worldVars, powered, relayOn, pulse, link, discovery>>

---------------------------------------------------------------------------
(* BinaryPresenceSensor *)

Switched(on, r, state) == [on EXCEPT ![r] = state]

ExecutedOn(on, action) ==
    CASE action.type = "On" -> Switched(on, action.relay, TRUE)
      [] action.type = "Off" -> Switched(on, action.relay, FALSE)
      [] action.type = "Toggle" -> Switched(on, action.relay, ~on[action.relay])
      [] action.type = "Pulse" /\ PulseSeconds > 0 -> Switched(on, action.relay, TRUE)
      [] action.type = "AllOn" -> [r \in Relays |-> TRUE]
      [] action.type = "AllOff" -> [r \in Relays |-> FALSE]
      [] OTHER -> on

PulseDropped(action) ==  \* fault: any other action ends the pulse under way
    IF action.type = "Pulse" /\ PulseSeconds > 0
    THEN [relay |-> action.relay, left |-> PulseSeconds] ELSE Idle

\* A new pulse takes the place of the one under way.
PulseAfter(action) == IF action.type = "Pulse" /\ PulseSeconds > 0
                      THEN [relay |-> action.relay, left |-> PulseSeconds] ELSE pulse

\* update(): first a pulse that is over, then the pin.
PulseOver == pulse # Idle /\ pulse.left = 0
EndPulse == /\ kind = "presence" /\ PulseOver
            /\ relayOn' = Switched(relayOn, pulse.relay, FALSE)
            /\ pulse' = Idle
            /\ UNCHANGED <<worldVars, value, powered, brokerVars>>

PollPresence ==
    /\ kind = "presence" /\ ~PulseOver /\ value # world
    /\ value' = world /\ OnUpdate
    /\ LET action == IF world = "high" THEN reactions.detected ELSE reactions.clear
       IN relayOn' = ExecutedOn(relayOn, action) /\ pulse' = PulseAfter(action)
    /\ UNCHANGED <<worldVars, powered, link, discovery>>

---------------------------------------------------------------------------
(* The world *)

WorldTurns ==
    /\ \/ world' \in Levels \ {world} /\ UNCHANGED readable
       \/ kind = "dht" /\ readable' = ~readable /\ UNCHANGED world
    /\ UNCHANGED <<kind, mapped, reactions, sensedVars, brokerVars>>

Second == /\ recent # {} \/ (pulse # Idle /\ pulse.left > 0)
          /\ recent' = {}
          /\ pulse' = IF pulse # Idle /\ pulse.left > 0 THEN [pulse EXCEPT !.left = @ - 1]
                                                          ELSE pulse
          /\ UNCHANGED <<worldVars, value, powered, relayOn, shown, link, discovery>>

\* A presence or reed sensor starts with what its pin says; the presence
\* sensor then does nothing.
FeedInit ==
    /\ kind \in Kinds
    /\ world \in Levels /\ readable = TRUE
    /\ value = IF kind \in {"presence", "reed"} THEN world ELSE Unread
    /\ shown = [c \in Channels |-> Unknown]
    \* VoltageSensorHandler answers from _initialized, which the handler reads
    \* before anybody has set it.
    /\ mapped \in IF kind = "voltage" THEN BOOLEAN ELSE {TRUE}
    /\ recent = {} /\ link = "Down" /\ discovery = Len(ChannelMap(kind)) + 1
    /\ powered = FALSE
    /\ reactions \in [{"detected", "clear"} -> IF kind = "presence" THEN Actions
                                               ELSE {Action("None", 0)}]
    /\ relayOn = [r \in Relays |-> FALSE] /\ pulse = Idle

Sense == \/ PollDht \/ PollLight \/ PollVoltage \/ PowerUp \/ ReadWater
         \/ PollReed \/ EndPulse \/ PollPresence
FeedNext == \/ Sense \/ SensorCommand \/ RemoteCommand \/ RemoteMessage
            \/ MetricsUpdated \/ Connect \/ PublishDiscovery \/ LoseLink
            \/ WorldTurns \/ Second

\* The loop polls the sensors and the handlers again and again; a remote device
\* sends what has changed.
FeedFairness == /\ WF_feedVars(Sense) /\ WF_feedVars(MetricsUpdated)
                /\ WF_feedVars(RemoteCommand) /\ WF_feedVars(Second)
                /\ WF_feedVars(Connect)
FeedSpec == FeedInit /\ [][FeedNext]_feedVars /\ FeedFairness

---------------------------------------------------------------------------
\* What discovery tells Home Assistant to expect for a level of a channel.  A
\* remote device is taken to send what its channel was configured for.
Binary == {"light", "contact", "presence"}
Announced(c, level) == IF c \in Binary THEN Word("ON", "OFF", level) ELSE level

\* What Home Assistant makes of the broker's text.
Displayed(c) == IF \E level \in Levels : Announced(c, level) = shown[c]
                THEN CHOOSE level \in Levels : Announced(c, level) = shown[c]
                ELSE Unknown

\* Once the world holds still, the sensor can be read and the connection
\* stays, the broker has what there is and Home Assistant shows it: also for
\* the kinds whose events nobody turns into a message, and for a change that
\* fell into the second after another.  A sensor that the handler did not find
\* is excepted, as a voltage sensor may be.  Presence is at the broker, as
\* "true" or "false", and Home Assistant, which was told to expect ON or OFF,
\* does not show it.  Code: the events of MQTTSensorHandler, and all channels
\* with the metrics; the texts of getMqttValue() and of the discovery.
FeedCatchesUp ==
    /\ mapped
    /\ <>[](readable /\ link = "Up")
    /\ <>[][~WorldTurns]_feedVars
    => <>[](\A c \in Channels : /\ shown[c] = MqttValue(c, world)
                                /\ c # "presence" => Displayed(c) = world)

\* The presence sensor switches relays on with pulses only, all on one relay.
\* Two pulses on different relays are excepted: the second makes the sensor
\* forget the first.
OnlyPulses == /\ kind = "presence"
              /\ \A e \in DOMAIN reactions :
                    reactions[e].type \in {"Pulse", "Off", "AllOff", "None"}
              /\ reactions.detected.type = "Pulse" /\ reactions.clear.type = "Pulse"
                     => reactions.detected.relay = reactions.clear.relay

\* A relay that only pulses switch on is on no longer than there is a timer
\* that will switch it off, however detection and clearing follow each other.
\* Code: BinaryPresenceSensor's update() and executeAction().
PulsedRelayIsTimed ==
    OnlyPulses => \A r \in Relays :
                     relayOn[r] => pulse.relay = r /\ pulse.left \in 0 .. PulseSeconds

\* Such a relay does not stay on once the pin holds still.
PulsedRelayGoesOff ==
    OnlyPulses /\ <>[][~WorldTurns]_feedVars => <>[](\A r \in Relays : ~relayOn[r])
=============================================================================
