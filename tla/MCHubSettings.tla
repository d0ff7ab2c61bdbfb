---------------------------- MODULE MCHubSettings ----------------------------
(* One relay, two pins, two sensors of one slot; for every setting the     *)
(* values at and beyond its bounds, and what is no number at all.          *)
EXTENDS HubSettings, FiniteSets

MCGpioSlots == [t \in SensorType |-> IF t = WaterSensor THEN Slot ELSE {}]
MCOutputSlots == [t \in SensorType |-> {}]
MCRelayOrder == <<"r1">>

Flag == {0, 1, 2, NoNumber}
Word == {1, 70000, NoNumber}
Text(size) == {0, size - 1, size, size + 1}

MCAsked == [s \in Setting |->
    CASE s \in {"mqttEnabled", "discovery", "wifi"} -> {0, 1, TrueWord}
      [] s \in Flags \ {"accessMode"} -> Flag
      [] s = "accessMode" -> {1, 2, 256, NoNumber}
      [] s = "relayName" -> {Names(5, 20), Names(6, 21), Names(0, 7), NoNumber}
      [] s = "buttonImage" -> {0, 5, 6, 255}
      [] s = "actionType" -> {0, 2, 3}
      [] s \in {"port", "mqttPort", "keepAlive", "startDelay"} ->
            {0, 65535, 65536, NoNumber}
      [] s \in {"name", "homePort"} -> Text(31)
      [] s = "callSign" -> Text(10)
      [] s \in {"apiKey", "hmacKey"} -> {13, 32}
      [] s = "broker" -> Text(64)
      [] s \in {"username", "mqttPassword", "deviceId", "prefix"} -> Text(32)
      [] s = "ssid" -> Text(32)
      [] s = "password" -> {64, 65}
      [] s \in {"ipAddress", "mmsi"} -> {5, NoNumber}
      [] s = "timezone" -> {-13, -12, 14, 15, 250, NoNumber}
      [] s = "homeButton" -> {RelayCount - 1, RelayCount, 255, 256}
      [] s = "locationType" -> {3, 300, NoNumber}
      [] s \in {"ledColor", "brightness"} -> {100, 101, 256, NoNumber}
      [] s = "ledEnables" -> {2, NoNumber}
      [] s \in {"goodTone", "badTone"} -> {0, 6, 255, 256}
      [] s = "baudRate" -> {9600, -1, NoNumber}
      [] s = "uartNum" -> {0, 1, 3, 258}
      [] s = "sdSpeed" -> {24, 25, 264}
      [] s = "threshold" -> {1023, 1024, 65536}]

MCHandWritten == {[settings |-> [s \in {"timezone"} |-> 244],
                   pins |-> [r \in {"r1"} |-> 4]],
                  [settings |-> [s \in {"threshold"} |-> 1], pins |-> <<>>],
                  [settings |-> [s \in {"panel"} |-> 1], pins |-> <<>>]}

(* The bound: while the settings, the radios and the card are as at first  *)
(* the pins may be anything, with at most two given, the sensors         *)
(* counted.  Otherwise the settings, in memory and on the card together,   *)
(* differ from the defaults in one, or in the radios' alone, or in the     *)
(* keys alone, and of the pins only the relays' have been given, with no   *)
(* setting changed.                                                        *)
Changed == {s \in Setting :
              \/ config[s] # Defaults[s]
              \/ s \in DOMAIN card.settings /\ card.settings[s] # Defaults[s]}

Given == {f \in Part : pin[f] \notin {PinDisabled, DefaultPins[f]}}

PinsVary ==
    /\ card = NoFile /\ live = [zone |-> 0, delay |-> 500]
    /\ radio = [bluetooth |-> FALSE, wifi |-> TRUE]
    /\ Cardinality(Given) + count <= 2
    /\ Changed = {}

SettingsVary ==
    /\ count = 0
    /\ \A f \in Part \ Relay : pin[f] = DefaultPins[f]
    /\ \/ Cardinality(Changed) <= 1 /\ radio = [bluetooth |-> FALSE, wifi |-> TRUE]
       \/ Changed \subseteq Radio
       \/ Changed \subseteq Auth /\ card = NoFile
    /\ Changed = {} \/ \A r \in Relay : pin[r] = PinDisabled

Bound == PinsVary \/ SettingsVary

\* While pins vary only pin commands come, and no other way round: every other
\* command is tried in the states of SettingsVary.
MCNext ==
    \/ /\ SettingsVary
       /\ \/ SerialSet \/ HttpSet \/ Missing \/ ResetSettings \/ CardNext
          \/ Changed \subseteq Auth /\ AuthNext
          \/ Changed = {} /\ PinNext
       /\ IF UNCHANGED <<config, card, radio, pin, count>> THEN TRUE ELSE Bound'
    \/ /\ PinsVary
       /\ PinsNext /\ UNCHANGED settingsVars
       /\ (Cardinality(Given) + count)' <= 2

MCInit == SettingsInit /\ Bound
MCSpec == MCInit /\ [][MCNext]_hubVars
=============================================================================
