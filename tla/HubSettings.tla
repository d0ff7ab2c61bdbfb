----------------------------- MODULE HubSettings -----------------------------
(***************************************************************************)
(* The settings of the hub beside its pins: the commands that change them  *)
(* over the serial line and over HTTP, the file config.txt on the SD card  *)
(* that they are exported to and loaded from (with CARD_CONFIG_LOADER), the*)
(* listings that clients read them from, and the parts of the running hub  *)
(* that keep a copy of one (the clock, the horn player, the two radios).   *)
(* Of the settings a relay has there is one relay's.                       *)
(***************************************************************************)
EXTENDS HubPins, SettingCommands, Sequences

CONSTANTS
    RelayOrder,     \* the relays in the order of their indexes
    Asked,          \* the values that commands ask for, by setting
    HandWritten     \* files a user may put on the card, setting to value

Radio == {"bluetooth", "wifi"}
Auth  == {"authEnabled", "apiKey", "hmacKey"}
Mqtt  == {"mqttEnabled", "broker", "mqttPort", "username", "mqttPassword",
          "deviceId", "discovery", "keepAlive", "prefix"}

Named == {"relayName", "buttonImage", "defaultState", "actionType"}

\* What an export holds (the name only when there is one, a relay's action
\* only when it has one).
Exported == Named \cup {"name", "homeButton", "locationType", "startDelay", "bluetooth",
             "wifi", "accessMode", "ssid", "password", "port", "ipAddress",
             "timezone", "mmsi", "callSign", "homePort", "ledColor",
             "brightness", "autoSwitch", "ledEnables", "goodTone", "badTone"}
Panel   == {"panel", "panelHardware", "baudRate", "uartNum"}
Setting == Exported \cup Auth \cup Mqtt \cup Panel \cup {"sdSpeed", "threshold"}

\* What can stand for a setting in a command or in the file: a number, or one of
\* the two words, which stand below every number that matters.
Texts == {"name", "ssid", "password", "callSign", "homePort", "broker", "username",
          "mqttPassword", "deviceId", "prefix", "apiKey", "hmacKey"}

Readable(s) ==
    {a \in Int : /\ a >= TrueWord
                 /\ s \in Texts => a >= 0
                 /\ s \in {"relayName", "ipAddress", "mmsi"} => a >= 0 \/ a = NoNumber
                 /\ s = "ledEnables" => a \in 0 .. 7 \/ a = NoNumber}

ASSUME SettingsAssumption ==
    /\ RelayOrder \in Seq(Relay)
    /\ \A r \in Relay : \E i \in DOMAIN RelayOrder : RelayOrder[i] = r
    /\ \A s \in Setting : Asked[s] \subseteq Readable(s)
    /\ \A file \in HandWritten :
          /\ \A s \in DOMAIN file.settings : s \in Setting /\ file.settings[s] \in Readable(s)
          /\ \A r \in DOMAIN file.pins : file.pins[r] \in PinValue

VARIABLES
    config,     \* the settings of the configuration in memory
    live,       \* what the clock and the horn player have been told
    radio,      \* which radios run
    card        \* config.txt: the settings and the relays' pins in it

settingsVars == <<config, live, radio, card>>
hubVars      == <<pin, sensors, count, answer, config, live, radio, card>>

NoFile == [settings |-> <<>>, pins |-> <<>>]

-----------------------------------------------------------------------------
(* Defaults, as ConfigManager::resetToDefaults leaves them.  What it does  *)
(* not name is zero: the panel's baud rate and UART.                       *)

Defaults ==
    [relayName |-> Names(3, 7), buttonImage |-> 2, defaultState |-> 0,
     actionType |-> 0, name |-> 7, homeButton |-> 0, locationType |-> 255, startDelay |-> 500,
     bluetooth |-> 0, wifi |-> 1, accessMode |-> 0, ssid |-> 15,
     password |-> 10, port |-> 80, ipAddress |-> 1, timezone |-> 0, mmsi |-> 0,
     callSign |-> 6, homePort |-> 7, ledColor |-> 80, brightness |-> 80,
     autoSwitch |-> 1, ledEnables |-> 7, goodTone |-> 1, badTone |-> 4,
     authEnabled |-> 0, apiKey |-> 0, hmacKey |-> 0, mqttEnabled |-> 0,
     broker |-> 13, mqttPort |-> 1883, username |-> 0, mqttPassword |-> 0,
     deviceId |-> 18, discovery |-> 0, keepAlive |-> 60, prefix |-> 13,
     panel |-> 0, panelHardware |-> 0, baudRate |-> 0, uartNum |-> 0,
     sdSpeed |-> 4, threshold |-> 512]

SettingsInit ==
    /\ PinsInit
    /\ config = Defaults
    /\ live = [zone |-> 0, delay |-> 500]
    /\ radio \in {[bluetooth |-> FALSE, wifi |-> w] : w \in BOOLEAN}
    /\ card = NoFile

-----------------------------------------------------------------------------
(* Which command sets which setting, by way in.                            *)

SerialC(s, a) ==
    CASE s = "name" -> SerialC3(a)
      [] s = "homeButton" -> SerialC5(a)
      [] s = "locationType" -> SerialC7(a)
      [] s = "startDelay" -> SerialC9(a)
      [] s = "bluetooth" -> SerialC10(a)
      [] s = "wifi" -> SerialC11(a)
      [] s = "accessMode" -> SerialC12(a)
      [] s = "ssid" -> SerialC13(a)
      [] s = "password" -> SerialC14(a)
      [] s = "port" -> SerialC15(a)
      [] s = "ipAddress" -> SerialC17(a)
      [] s = "timezone" -> SerialC20(a)
      [] s = "mmsi" -> SerialC21(a)
      [] s = "callSign" -> SerialC22(a)
      [] s = "homePort" -> SerialC23(a)
      [] s = "ledColor" -> SerialC24(a)
      [] s = "brightness" -> SerialC25(a)
      [] s = "autoSwitch" -> SerialC26(a)
      [] s = "ledEnables" -> SerialC27(a)
      [] s \in {"goodTone", "badTone"} -> SerialC28(a)
      [] s = "sdSpeed" -> SerialC31(a)
      [] s = "threshold" -> SerialC33(a)

SerialN(s, a) ==
    CASE s = "panel" -> SerialN1(a)
      [] s = "panelHardware" -> SerialN2(a)
      [] s = "baudRate" -> SerialN5(a)
      [] s = "uartNum" -> SerialN6(a)

SerialM(s, a) ==
    CASE s = "mqttEnabled" -> SerialM0(a)
      [] s = "broker" -> SerialM1(a)
      [] s = "mqttPort" -> SerialM2(a)
      [] s = "username" -> SerialM3(a)
      [] s = "mqttPassword" -> SerialM4(a)
      [] s = "deviceId" -> SerialM5(a)
      [] s = "discovery" -> SerialM6(a)
      [] s = "keepAlive" -> SerialM7(a)
      [] s = "prefix" -> SerialM9(a)

SerialR(s, a) ==
    CASE s = "relayName" -> SerialR6(a)
      [] s = "buttonImage" -> SerialR7(a)
      [] s = "defaultState" -> SerialR8(a)
      [] s = "actionType" -> SerialR10(a)

Serial(s, a) ==
    IF s \in Named THEN SerialR(s, a)
    ELSE IF s \in Mqtt THEN SerialM(s, a)
    ELSE IF s \in Panel THEN SerialN(s, a)
    ELSE SerialC(s, a)

HttpC(s, a) ==
    CASE s = "name" -> HttpC3(a)
      [] s = "homeButton" -> HttpC5(a)
      [] s = "locationType" -> HttpC7(a)
      [] s = "startDelay" -> HttpC9(a)
      [] s = "bluetooth" -> HttpC10(a)
      [] s = "wifi" -> HttpC11(a)
      [] s = "accessMode" -> HttpC12(a)
      [] s = "ssid" -> HttpC13(a)
      [] s = "password" -> HttpC14(a)
      [] s = "port" -> HttpC15(a)
      [] s = "ipAddress" -> HttpC17(a)
      [] s = "timezone" -> HttpC20(a)
      [] s = "mmsi" -> HttpC21(a)
      [] s = "callSign" -> HttpC22(a)
      [] s = "homePort" -> HttpC23(a)
      [] s = "ledColor" -> HttpC24(a)
      [] s = "brightness" -> HttpC25(a)
      [] s = "autoSwitch" -> HttpC26(a)
      [] s = "ledEnables" -> HttpC27(a)
      [] s \in {"goodTone", "badTone"} -> HttpC28(a)
      [] s = "sdSpeed" -> HttpC31(a)
      [] s = "threshold" -> Refused

HttpN(s, a) ==
    CASE s = "panel" -> HttpN1(a)
      [] s = "panelHardware" -> HttpN2(a)
      [] s = "baudRate" -> HttpN5(a)
      [] s = "uartNum" -> HttpN6(a)

HttpM(s, a) ==
    CASE s = "mqttEnabled" -> HttpM0(a)
      [] s = "broker" -> HttpM1(a)
      [] s = "mqttPort" -> HttpM2(a)
      [] s = "username" -> HttpM3(a)
      [] s = "mqttPassword" -> HttpM4(a)
      [] s = "deviceId" -> HttpM5(a)
      [] s = "discovery" -> HttpM6(a)
      [] s = "keepAlive" -> HttpM7(a)
      [] s = "prefix" -> HttpM9(a)

HttpR(s, a) ==
    CASE s = "relayName" -> HttpR6(a)
      [] s = "buttonImage" -> HttpR7(a)
      [] s = "defaultState" -> HttpR8(a)
      [] s = "actionType" -> HttpR10(a)

Http(s, a) ==
    IF s \in Named THEN HttpR(s, a)
    ELSE IF s \in Mqtt THEN HttpM(s, a)
    ELSE IF s \in Panel THEN HttpN(s, a)
    ELSE HttpC(s, a)

Card(s, a) ==
    CASE s = "relayName" -> CardR6(a)
      [] s = "buttonImage" -> CardR7(a)
      [] s = "defaultState" -> CardR8(a)
      [] s = "actionType" -> CardR10(a)
      [] s = "name" -> CardC3(a)
      [] s = "homeButton" -> CardC5(a)
      [] s = "locationType" -> CardC7(a)
      [] s = "startDelay" -> CardC9(a)
      [] s = "bluetooth" -> CardC10(a)
      [] s = "wifi" -> CardC11(a)
      [] s = "accessMode" -> CardC12(a)
      [] s = "ssid" -> CardC13(a)
      [] s = "password" -> CardC14(a)
      [] s = "port" -> CardC15(a)
      [] s = "ipAddress" -> CardC17(a)
      [] s = "timezone" -> CardC20(a)
      [] s = "mmsi" -> CardC21(a)
      [] s = "callSign" -> CardC22(a)
      [] s = "homePort" -> CardC23(a)
      [] s = "ledColor" -> CardC24(a)
      [] s = "brightness" -> CardC25(a)
      [] s = "autoSwitch" -> CardC26(a)
      [] s = "ledEnables" -> CardC27(a)
      [] s \in {"goodTone", "badTone"} -> CardC28(a)
      [] s = "sdSpeed" -> CardC31(a)
      [] s = "threshold" -> CardC33(a)
      [] OTHER -> Refused

-----------------------------------------------------------------------------
(* Storing one setting.  Who keeps a copy of it is told at once.           *)

Tell(S, new) ==
    live' = [zone  |-> IF "timezone" \in S THEN new.timezone ELSE live.zone,
             delay |-> IF S \cap {"startDelay", "locationType"} # {}
                         THEN new.startDelay ELSE live.delay]

StoreSetting(s, v) ==
    /\ UNCHANGED <<pin, sensors, count, radio, card>>
    /\ \/ /\ v = Refused
          /\ answer' = "refused"
          /\ UNCHANGED <<config, live>>
       \/ /\ v = Ignored
          /\ answer' = "ok"
          /\ UNCHANGED <<config, live>>
       \/ /\ v \notin {Refused, Ignored}
          /\ config' = [config EXCEPT ![s] = v]
          /\ Tell({s}, config')
          /\ answer' = "ok"

\* A radio that runs keeps running until the next start, whatever is stored;
\* one that does not run is tried at once when it is enabled.
SwitchRadio(r, v) ==
    /\ config' = [config EXCEPT ![r] = v]
    /\ UNCHANGED <<pin, sensors, count, live, card>>
    /\ \/ /\ radio[r] \/ v = 0
          /\ answer' = "ok"
          /\ UNCHANGED radio
       \/ /\ ~radio[r] /\ v = 1
          /\ \E started \in BOOLEAN :
                /\ radio' = [radio EXCEPT ![r] = started]
                /\ answer' = IF started THEN "ok" ELSE "refused"

SerialSet ==
    \E s \in Setting \ Auth : \E a \in Asked[s] :
        IF s \in Radio THEN SwitchRadio(s, Serial(s, a))
        ELSE StoreSetting(s, Serial(s, a))

\* A value comes in the body of the request, which is read whole, or in its
\* URL, of whose query the first characters are kept and no more is said.
Queried(s, a) == IF s \in Texts THEN Clip(a, QueryTextLength) ELSE a

HttpSet ==
    \E s \in Setting \ Auth : \E a \in Asked[s] : \E kept \in {a, Queried(s, a)} :
        IF s \in Radio THEN SwitchRadio(s, Http(s, kept))
        ELSE StoreSetting(s, Http(s, kept))

\* A command without its parameter.
Missing ==
    /\ answer' = "refused"
    /\ UNCHANGED <<pin, sensors, count, config, live, radio, card>>

-----------------------------------------------------------------------------
(* C19.  Any of its three parameters may be left out.  The serial line     *)
(* stores "enabled" first and takes no notice of its outcome; the web      *)
(* server stores the keys first.  With none of the three, both answer with *)
(* what happens to be in an uninitialized variable.                        *)

Absent == -1

EnableAuth(c, e) ==
    IF e = 1 /\ (c.apiKey = 0 \/ c.hmacKey = 0)
      THEN [ok |-> FALSE, config |-> c]
      ELSE [ok |-> TRUE, config |-> [c EXCEPT !.authEnabled = e]]

StoreKey(c, key, k) ==
    IF k > KeyLength - 1
      THEN [ok |-> FALSE, config |-> EnableAuth(c, 0).config]
      ELSE [ok |-> TRUE, config |-> [c EXCEPT ![key] = k]]

AfterKeys(c, k, h) ==
    LET one == IF k = Absent THEN [ok |-> TRUE, config |-> c]
               ELSE StoreKey(c, "apiKey", k)
    IN  IF ~one.ok \/ h = Absent THEN one
        ELSE StoreKey(one.config, "hmacKey", h)

SerialAuthOutcome(e, k, h) ==
    AfterKeys(IF e = Absent THEN config ELSE EnableAuth(config, Boolean(e)).config,
              k, h)

HttpAuthOutcome(e, k, h) ==
    LET keys == AfterKeys(config, k, h)
    IN  IF ~keys.ok \/ e = Absent THEN keys ELSE EnableAuth(keys.config, Boolean(e))

AuthStep(outcome, nothingAsked) ==
    /\ config' = outcome.config
    /\ answer' \in IF nothingAsked THEN {"ok", "refused"}
                   ELSE IF outcome.ok THEN {"ok"} ELSE {"refused"}
    /\ UNCHANGED <<pin, sensors, count, live, radio, card>>

Optional(s) == Asked[s] \cup {Absent}

SerialC19 ==
    \E e \in Optional("authEnabled"), k \in Optional("apiKey"),
       h \in Optional("hmacKey") :
        AuthStep(SerialAuthOutcome(e, k, h), {e, k, h} = {Absent})

HttpC19 ==
    \E e \in Optional("authEnabled"), k \in Optional("apiKey"),
       h \in Optional("hmacKey") :
        AuthStep(HttpAuthOutcome(e, k, h), {e, k, h} = {Absent})

GenerateAuthKeys ==
    /\ config' = [config EXCEPT !.apiKey = 13, !.hmacKey = 13]
    /\ answer' = "ok"
    /\ UNCHANGED <<pin, sensors, count, live, radio, card>>

\* C2 forgets everything but what the clock, the horn and the radios have.
ResetSettings ==
    /\ Reset
    /\ config' = Defaults
    /\ UNCHANGED <<live, radio, card>>

-----------------------------------------------------------------------------
(* What the listings show of the settings: C1, N0, the M queries and R5    *)
(* over the serial line, the status documents and the M queries over HTTP. *)
(* The status has words for five switches, everything else prints numbers. *)

ListedC1     == (Exported \ (Named \cup {"ipAddress"})) \cup {"sdSpeed", "threshold"}
ListedN0     == Panel
QueriedM     == Mqtt
ListedR5     == Named
SerialListed == ListedC1 \cup ListedN0 \cup QueriedM \cup ListedR5

StatusC    == (Exported \ (Named \cup {"ipAddress", "homeButton"})) \cup {"sdSpeed"}
StatusM    == Mqtt \ {"mqttPassword"}
StatusR    == Named
HttpListed == StatusC \cup StatusM \cup StatusR
HttpQueriedM == Mqtt \ {"mqttPassword"}

MqttSwitches == {"mqttEnabled", "discovery"}
StatusWords  == {"bluetooth", "wifi", "autoSwitch"} \cup MqttSwitches

StatusText(s, v) ==
    IF s \notin StatusWords THEN v
    ELSE IF v = 1 THEN TrueWord ELSE NoNumber

LongTexts == {"broker", "password"}     \* the only ones a query may be too short for

-----------------------------------------------------------------------------
(* C30 and C29: config.txt on the card.                                    *)

ExportedSettings(c) ==
    LET left == (IF c.name = 0 THEN {"name"} ELSE {})
                  \cup (IF c.actionType = 0 THEN {"actionType"} ELSE {})
    IN  [s \in Exported \ left |-> c[s]]

ExportedPins == [r \in {q \in Relay : pin[q] # PinDisabled} |-> pin[r]]

ExportConfig ==
    /\ card' = [settings |-> ExportedSettings(config), pins |-> ExportedPins]
    /\ answer' = "ok"
    /\ UNCHANGED <<pin, sensors, count, config, live, radio>>

\* No card, no exclusive access, or no file to be opened.
CardFails ==
    /\ answer' = "refused"
    /\ UNCHANGED <<pin, sensors, count, config, live, radio, card>>

EditCard ==
    /\ card' \in HandWritten
    /\ UNCHANGED <<pin, sensors, count, answer, config, live, radio>>

\* The relays' pins are set one line after the other, each through setRelayPin.
PinLine(pins, r, p) ==
    LET used == \/ \E f \in Part : pins[f] = p
                \/ \E i \in Index : i < count /\ \E s \in Slot : sensors[i].pins[s] = p
    IN  IF p = 0 \/ (p # PinDisabled /\ (used \/ Forbidden(p, TRUE)))
          THEN pins
          ELSE [pins EXCEPT ![r] = p]

LinesApplied(lines, pins) ==
    LET after[n \in 0 .. Len(RelayOrder)] ==
          IF n = 0 THEN pins
          ELSE IF RelayOrder[n] \in DOMAIN lines
                 THEN PinLine(after[n - 1], RelayOrder[n], lines[RelayOrder[n]])
                 ELSE after[n - 1]
    IN  after

LoadedPins(lines, pins) == LinesApplied(lines, pins)[Len(RelayOrder)]

Applied(lines)      == {s \in DOMAIN lines : Card(s, lines[s]) # Refused}
Loaded(lines, c)    == [s \in Setting |-> IF s \in Applied(lines)
                                            THEN Card(s, lines[s]) ELSE c[s]]

\* Every line is applied, then the whole is saved when any line was right.  A
\* radio that is enabled and does not start is an error of its line; a remark
\* or an empty line is right.
LoadConfig ==
    LET lines == card.settings
        tried == {r \in Radio \cap Applied(lines) :
                    ~radio[r] /\ Card(r, lines[r]) = 1}
    IN  /\ card # NoFile
        /\ config' = Loaded(lines, config)
        /\ pin' = LoadedPins(card.pins, pin)
        /\ Tell(Applied(lines), config')
        /\ \E started \in SUBSET tried, remarks \in BOOLEAN, saved \in BOOLEAN :
              /\ radio' = [r \in Radio |-> radio[r] \/ r \in started]
              /\ answer' = IF /\ saved
                              /\ \/ remarks
                                 \/ Applied(lines) \ (tried \ started) # {}
                                 \/ pin' # pin
                             THEN "ok" ELSE "refused"
        /\ UNCHANGED <<sensors, count, card>>

-----------------------------------------------------------------------------
AuthNext == SerialC19 \/ HttpC19 \/ GenerateAuthKeys
CardNext == ExportConfig \/ EditCard \/ LoadConfig \/ CardFails
PinNext  == (SerialCommand \/ HttpCommand) /\ UNCHANGED settingsVars

HubNext == SerialSet \/ HttpSet \/ Missing \/ ResetSettings
           \/ AuthNext \/ CardNext \/ PinNext

HubSpec == SettingsInit /\ [][HubNext]_hubVars

-----------------------------------------------------------------------------
\* The settings that are 0 or 1.
Flags == {"bluetooth", "wifi", "autoSwitch", "authEnabled", "mqttEnabled",
          "discovery", "panel", "panelHardware", "accessMode", "defaultState"}

(* What a client has read it can send back as it was printed and nothing   *)
(* changes: from the listings over the serial line; from the status over   *)
(* HTTP, words and all, and from the M queries, in the body of a request   *)
(* and, but for the texts that a query is too short for, in its URL; and a *)
(* file that is exported now gives every setting in it, and every relay's  *)
(* pin on a hub that was reset, when it is loaded.  Not so the switches of *)
(* MQTT as the status shows them: M0 and M6 take "true" for off over HTTP. *)
(* (A listing may show what the commands refuse: the UART number 0 of a    *)
(* reset panel.  A relay's picture is listed by another number than the    *)
(* serial line sets it by.)                                                *)
ReadBackUnchanged ==
    /\ \A s \in SerialListed \ {"buttonImage"} : Serial(s, config[s]) \in {config[s], Refused}
    /\ \A s \in HttpListed \ MqttSwitches :
          LET shown == StatusText(s, config[s])
          IN  /\ Http(s, shown) \in {config[s], Refused}
              /\ s \notin LongTexts => Http(s, Queried(s, shown)) \in {config[s], Refused}
    /\ \A s \in HttpQueriedM : Http(s, config[s]) \in {config[s], Refused}
    /\ \A s \in DOMAIN ExportedSettings(config) : Card(s, config[s]) = config[s]
    /\ count = 0 => \A r \in Relay :
                       LoadedPins(ExportedPins, DefaultPins)[r] = pin[r]
=============================================================================
