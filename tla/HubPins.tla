------------------------------- MODULE HubPins -------------------------------
(***************************************************************************)
(* Which GPIO pin every part of the hub has, and the commands that change  *)
(* it: the setters of ConfigController and RelayController behind PinGuard,*)
(* the table of local sensors, and the two front ends that reach them, the *)
(* serial line and the web server.  A pin is refused when some part or     *)
(* sensor already has it, or when the board's table forbids it.            *)
(***************************************************************************)
EXTENDS Naturals

CONSTANTS
    Relay,          \* the relays, by name
    Pin,            \* the GPIO numbers that commands name; 0 is one of them
    Hard,           \* pins wired to the flash: refused for every use
    InputOnly,      \* pins that cannot drive an output
    Advisory,       \* strapping and UART pins
    Mode,           \* PinGuardMode: a subset of {"AllowAdvisory", "Bypass"}
    MaxSensors,     \* ConfigMaxSensors
    Slot,           \* the pin slots of a sensor (ConfigMaxSensorPins of them)
    SensorType,     \* the types of local sensor
    WaterSensor,    \* the one whose number is 0, which a cleared entry has
    GpioSlots,      \* for each type, the slots that hold a GPIO and no payload
    OutputSlots     \* and those among them that drive an output

PinDisabled == 255

Spi     == {"spi.sck", "spi.mosi", "spi.miso"}
Rgb     == {"rgb.r", "rgb.g", "rgb.b"}
Rtc     == {"rtc.dat", "rtc.clk", "rtc.rst"}
Nextion == {"nextion.rx", "nextion.tx"}
Single  == {"sdCard.cs", "xpdzTone"}
Part    == Relay \cup Spi \cup Rgb \cup Rtc \cup Nextion \cup Single

ASSUME PinsAssumption ==
    /\ Relay \cap (Spi \cup Rgb \cup Rtc \cup Nextion \cup Single) = {}
    /\ Pin \subseteq 0 .. 254
    /\ 0 \in Pin
    /\ MaxSensors \in Nat
    /\ WaterSensor \in SensorType
    /\ GpioSlots \in [SensorType -> SUBSET Slot]
    /\ OutputSlots \in [SensorType -> SUBSET Slot]

PinValue == Pin \cup {PinDisabled}
Index    == 0 .. MaxSensors - 1
Entry    == [type : SensorType, pins : [Slot -> PinValue]]

VARIABLES
    pin,        \* the pin of every part, config.relay, spiPins, rtc ...
    sensors,    \* config.sensors.sensors
    count,      \* config.sensors.count
    answer      \* of the last command: "ok" or "refused"

sensorVars == <<sensors, count>>
pinsVars   == <<pin, sensors, count, answer>>

-----------------------------------------------------------------------------
(* PinGuard.  getUsedPins looks at every part and at the slots of the      *)
(* sensors below count, whatever a slot means to its sensor.               *)

\* fault: the pins of the panel are not in the list.
InUseWithoutPanel(p) ==
    \/ \E f \in Part \ Nextion : pin[f] = p
    \/ \E i \in Index : i < count /\ \E s \in Slot : sensors[i].pins[s] = p

\* fault: the last sensor of the table is left out.
InUseButLast(p) ==
    \/ \E f \in Part : pin[f] = p
    \/ \E i \in Index : i + 1 < count /\ \E s \in Slot : sensors[i].pins[s] = p

InUse(p) ==
    \/ \E f \in Part : pin[f] = p
    \/ \E i \in Index : i < count /\ \E s \in Slot : sensors[i].pins[s] = p

RequiresOutput(f) == f \notin {"spi.miso", "nextion.rx"}

Forbidden(p, output) ==
    /\ "Bypass" \notin Mode
    /\ \/ p \in Hard
       \/ p \in InputOnly /\ output
       \/ p \in Advisory \ InputOnly /\ "AllowAdvisory" \notin Mode

IsBlocked(p, output) == p # PinDisabled /\ (InUse(p) \/ Forbidden(p, output))

-----------------------------------------------------------------------------
(* The setters.  Each pin of a command is looked at before any is stored.  *)

Refuse == answer' = "refused" /\ UNCHANGED <<pin, sensors, count>>

Store(F, new) ==
    /\ pin' = [f \in Part |-> IF f \in F THEN new[f] ELSE pin[f]]
    /\ answer' = "ok"
    /\ UNCHANGED sensorVars

SetPins(F, new) ==
    IF \E f \in F : IsBlocked(new[f], RequiresOutput(f))
      THEN Refuse
      ELSE Store(F, new)

SetSpiPins(new)     == SetPins(Spi, new)
SetHw479RgbPins(new)  == SetPins(Rgb, new)
SetXpdzTonePin(p)   == SetPins({"xpdzTone"}, [f \in {"xpdzTone"} |-> p])
SetSdCardCsPin(p)   == SetPins({"sdCard.cs"}, [f \in {"sdCard.cs"} |-> p])
SetNextionRxPin(p)  == SetPins({"nextion.rx"}, [f \in {"nextion.rx"} |-> p])
SetNextionTxPin(p)  == SetPins({"nextion.tx"}, [f \in {"nextion.tx"} |-> p])

\* The clock's own pins are put aside while the new ones are looked at, and
\* are put back when one of those is refused.
InUseBesidesRtc(p) ==
    \/ \E f \in Part \ Rtc : pin[f] = p
    \/ \E i \in Index : i < count /\ \E s \in Slot : sensors[i].pins[s] = p

RtcBlocked(new) ==
    \E f \in Rtc : /\ new[f] # PinDisabled
                   /\ InUseBesidesRtc(new[f]) \/ Forbidden(new[f], TRUE)

SetRtcPins(new) == IF RtcBlocked(new) THEN Refuse ELSE Store(Rtc, new)

\* RelayController::setRelayPin refuses GPIO 0 before PinGuard is asked.
SetRelayPin(r, p) ==
    IF p = 0 THEN Refuse ELSE SetPins({r}, [f \in {r} |-> p])

-----------------------------------------------------------------------------
(* The commands that name pins, from the serial line.  A parameter that is *)
(* missing or is no number from 0 to 255 is refused.  (A relay's pin and   *)
(* the SD card's go through atoi and a cast instead: whatever is written   *)
(* there is some pin, GPIO 0 when it is no number.)                        *)

SerialRelay    == Refuse \/ \E r \in Relay, p \in PinValue : SetRelayPin(r, p)
SerialToneSpi  == \/ Refuse
                  \/ \E p \in PinValue : SetXpdzTonePin(p)
                  \/ \E new \in [Spi -> PinValue] : SetSpiPins(new)
SerialRgb      == Refuse \/ \E new \in [Rgb -> PinValue] : SetHw479RgbPins(new)
SerialRtc      == Refuse \/ \E new \in [Rtc -> PinValue] : SetRtcPins(new)
SerialCs       == Refuse \/ \E p \in PinValue : SetSdCardCsPin(p)
SerialNextion  == \/ Refuse
                  \/ \E p \in PinValue : SetNextionRxPin(p) \/ SetNextionTxPin(p)

(* The same commands over HTTP.  The relay's answer is "ok" unless         *)
(* PinGuard refused the pin: GPIO 0 is acknowledged and not stored.        *)

HttpRelay ==
    \/ Refuse
    \/ \E r \in Relay, p \in PinValue :
          IF p = 0
            THEN answer' = "ok" /\ UNCHANGED <<pin, sensors, count>>
            ELSE SetRelayPin(r, p)
HttpToneSpi == \/ Refuse
               \/ \E p \in PinValue : SetXpdzTonePin(p)
               \/ \E new \in [Spi -> PinValue] : SetSpiPins(new)
HttpRgb     == Refuse \/ \E new \in [Rgb -> PinValue] : SetHw479RgbPins(new)
HttpRtc     == Refuse \/ \E new \in [Rtc -> PinValue] : SetRtcPins(new)
HttpNextion == \/ Refuse
               \/ \E p \in PinValue : SetNextionRxPin(p) \/ SetNextionTxPin(p)
HttpCs      == Refuse \/ \E p \in PinValue : SetSdCardCsPin(p)

-----------------------------------------------------------------------------
(* The table of local sensors, commands S1 to S6.  S1 writes the type and  *)
(* leaves the pins as they are.  The web server has two handlers of these  *)
(* commands, api/sensor and api/sensorconfig, that store alike.            *)

StoreSensors(table, n) ==
    /\ sensors' = table
    /\ count' = n
    /\ answer' = "ok"
    /\ UNCHANGED pin

AddUpdate(i, t) ==
    StoreSensors([sensors EXCEPT ![i].type = t],
                 IF i >= count THEN i + 1 ELSE count)

StorePin(i, s, p) == StoreSensors([sensors EXCEPT ![i].pins[s] = p], count)

NoEffect == answer' = "ok" /\ UNCHANGED <<pin, sensors, count>>

SerialAddUpdate == Refuse \/ \E i \in Index, t \in SensorType : AddUpdate(i, t)
HttpAddUpdate   == Refuse \/ \E i \in Index, t \in SensorType : AddUpdate(i, t)

\* Over the serial line the entry is cleared where it stands.
Cleared == [type |-> WaterSensor, pins |-> [s \in Slot |-> PinDisabled]]

SerialRemove(i) ==
    IF i >= count THEN NoEffect
    ELSE StoreSensors([sensors EXCEPT ![i] = Cleared], count)

\* Over HTTP the entries behind it move down, and the last one is filled
\* with zero bytes: its slots hold GPIO 0.
Zeroed == [type |-> WaterSensor, pins |-> [s \in Slot |-> 0]]

Compacted(i) ==
    [j \in Index |-> IF i <= j /\ j + 1 < count THEN sensors[j + 1]
                     ELSE IF j = count - 1 THEN Zeroed
                     ELSE sensors[j]]

HttpRemove(i) ==
    IF i >= count THEN NoEffect ELSE StoreSensors(Compacted(i), count - 1)

\* The serial line asks PinGuard about every slot, the web server only about
\* the slots that hold a GPIO for the type the entry has.
SerialSetPin(i, s, p) ==
    IF i >= count \/ IsBlocked(p, FALSE) THEN Refuse ELSE StorePin(i, s, p)

IsGpioSlot(i, s) == s \in GpioSlots[sensors[i].type]
IsOutput(i, s)   == s \in OutputSlots[sensors[i].type]

HttpSetPin(i, s, p) ==
    IF i >= count \/ (IsGpioSlot(i, s) /\ IsBlocked(p, IsOutput(i, s)))
      THEN Refuse
      ELSE StorePin(i, s, p)

\* Name, enabled flag and options touch no pin: only the index is looked at.
SerialDetail(i) == IF i >= count THEN Refuse ELSE NoEffect
HttpDetail(i)   == IF i >= count THEN Refuse ELSE NoEffect

-----------------------------------------------------------------------------
(* C2, reset to defaults: the structure is filled with zero bytes, then    *)
(* every pin but those of the Nextion panel is set to PinDisabled.         *)

DefaultPins == [f \in Part |-> IF f \in Nextion THEN 0 ELSE PinDisabled]
NoSensors   == [i \in Index |-> Cleared]

Reset ==
    /\ pin' = DefaultPins
    /\ sensors' = NoSensors
    /\ count' = 0
    /\ answer' = "ok"

\* A board starts from the defaults, or from a configuration an older
\* firmware left, whose migration disables the pins it did not know.
PinsInit ==
    /\ pin \in {DefaultPins, [f \in Part |-> PinDisabled]}
    /\ sensors = NoSensors
    /\ count = 0
    /\ answer = "ok"

SerialCommand ==
    \/ SerialRelay \/ SerialToneSpi \/ SerialRgb \/ SerialRtc \/ SerialCs
    \/ SerialNextion \/ SerialAddUpdate
    \/ \E i \in Index : SerialRemove(i) \/ SerialDetail(i)
    \/ \E i \in Index, s \in Slot, p \in PinValue : SerialSetPin(i, s, p)

HttpCommand ==
    \/ HttpRelay \/ HttpToneSpi \/ HttpRgb \/ HttpRtc \/ HttpCs
    \/ HttpNextion \/ HttpAddUpdate
    \/ \E i \in Index : HttpRemove(i) \/ HttpDetail(i)
    \/ \E i \in Index, s \in Slot, p \in PinValue : HttpSetPin(i, s, p)

PinsNext == SerialCommand \/ HttpCommand \/ Reset
PinsSpec == PinsInit /\ [][PinsNext]_pinsVars

-----------------------------------------------------------------------------
TypeOK ==
    /\ pin \in [Part -> PinValue]
    /\ sensors \in [Index -> Entry]
    /\ count \in 0 .. MaxSensors
    /\ answer \in {"ok", "refused"}

SameDevice(f, g) ==
    f = g \/ \E D \in {Spi, Rgb, Rtc, Nextion} : f \in D /\ g \in D

(* Two parts of different devices never have the same pin: not after any   *)
(* series of commands from both front ends and resets in between.  (Two    *)
(* pins of one device can coincide: the pins of one command are each       *)
(* compared with what is stored, never with each other.)                   *)
DevicesApart ==
    \A f, g \in Part :
        pin[f] = pin[g] /\ pin[f] # PinDisabled => SameDevice(f, g)

(* A part never takes a pin that a sensor in the table has in one of its   *)
(* slots, whichever front end stored it there.                             *)
NoPinTakenFromSensor ==
    [][\A f \in Part, i \in Index, s \in Slot :
          /\ pin'[f] # pin[f]
          /\ pin'[f] # PinDisabled
          /\ i < count'
          => pin'[f] # sensors'[i].pins[s]]_pinsVars
=============================================================================
